---- MODULE Spec2Model ----
(***************************************************************************)
(* gramX: presence directory, conversation keying, message store and       *)
(* event router, as implemented by the server iterations in src/server.js  *)
(* and src/unnamed/part_000.                                               *)
(*                                                                         *)
(* Strings (user names, conversation ids) are sequences of UTF-16 code     *)
(* units, so that sort(), join('_') and split('_') are computed as         *)
(* JavaScript computes them.                                               *)
(***************************************************************************)
EXTENDS Integers, Sequences, FiniteSets, TLC

VARIABLES
    keyArgs,      \* the arguments of the getConversationId calls under test
    keyRes,       \* their results, <<>> before the calls
    conn,         \* socket.id -> "idle" (not yet connected), "open", "closed"
    activeUsers,  \* Map socket.id -> {username, userId}
    userSockets,  \* Map username -> socket.id
    messages,     \* the MESSAGES collection, in insertion order
    pending,      \* handlers suspended at an await, with their locals
    emits,        \* what the last step emitted, in order
    now,          \* the clock new Date() reads
    stale,        \* history: <<u, c>> once a login of u on another socket replaced c
    sockets,      \* token-authenticated server: socket -> state and socket.userId
    userOnline,   \* its User documents: online
    msgDocs,      \* its Message collection, in insertion order
    chatDocs,     \* its Chat documents: lastMessage
    inflight,     \* its handlers suspended at an await, with their locals
    firstSockets, \* first server: socket -> state and the rooms it has joined
    firstUsers,   \* its User documents: isOnline, contacts, blockedUsers
    firstMessages, \* its Message collection, in insertion order
    firstChats,   \* its Chat collection, in insertion order
    firstCalls,   \* its handlers and requests suspended at an await
    globalConn,   \* global chat (part_000): socket.id -> "idle", "open", "closed"
    globalActiveUsers, \* its activeUsers: Map socket.id -> username
    globalMessages, \* its messages array
    globalSent    \* history: the send-message events it has handled

keyVars == <<keyArgs, keyRes>>
dirVars == <<conn, activeUsers, userSockets, stale>>
chatVars == <<messages, pending, emits, now>>
authVars == <<sockets, userOnline, msgDocs, chatDocs, inflight>>
globalVars == <<globalConn, globalActiveUsers, globalMessages, globalSent>>
firstVars == <<firstSockets, firstUsers, firstMessages, firstChats, firstCalls>>
vars == <<keyArgs, keyRes, conn, activeUsers, userSockets, messages, pending,
          emits, now, stale, sockets, userOnline, msgDocs, chatDocs, inflight,
          firstSockets, firstUsers, firstMessages, firstChats, firstCalls,
          globalConn, globalActiveUsers, globalMessages, globalSent>>

----------------------------------------------------------------------------
(* Bounds *)

MaxNameLen == 2      \* longest user name drawn for the keying calls
NumConns == 2        \* connections that may ever be opened
MaxPending == 1      \* handlers suspended at an await at the same time
MaxInFlight == 2     \* suspended handlers of the token-authenticated server
MaxDocs == 1         \* send_message events it accepts
MaxVersion == 3      \* writes of one message's reactions
MaxQueued == 2       \* sends of one socket suspended at the same time
MaxMsgs == 2         \* send-private-message events accepted
MaxCalls == 1      \* suspended handlers and requests of the first server
MaxSent == 2       \* sendMessage events it accepts
MaxGlobalSends == 102 \* send-message events the global chat accepts

\* the length the global chat cuts its messages array to
LogLimit == 100

----------------------------------------------------------------------------
(* Strings *)

Underscore == 95     \* '_', the separator of join('_') / split('_')
\* The code units the drawn names are made of: '_' and 'a'.
KeyAlphabet == {Underscore, 97}

RECURSIVE StringsUpTo(_)
StringsUpTo(n) ==
    IF n = 0 THEN {<<>>}
    ELSE LET shorter == StringsUpTo(n - 1)
         IN  shorter \cup {Append(s, ch) : s \in shorter, ch \in KeyAlphabet}

KeyNames == StringsUpTo(MaxNameLen) \ {<<>>}

\* s < t in JavaScript's string order (code unit by code unit, a proper
\* prefix first), the order Array.prototype.sort() uses by default.
RECURSIVE StrLess(_, _)
StrLess(s, t) ==
    IF t = <<>> THEN FALSE
    ELSE IF s = <<>> THEN TRUE
    ELSE IF Head(s) # Head(t) THEN Head(s) < Head(t)
    ELSE StrLess(Tail(s), Tail(t))

\* [x, y].sort()
SortPair(x, y) == IF StrLess(y, x) THEN <<y, x>> ELSE <<x, y>>

\* parts.join('_')
RECURSIVE JoinUnderscore(_)
JoinUnderscore(parts) ==
    IF parts = <<>> THEN <<>>
    ELSE IF Len(parts) = 1 THEN parts[1]
    ELSE parts[1] \o <<Underscore>> \o JoinUnderscore(Tail(parts))

\* A plausible slip: the pair is joined without being sorted.
getConversationIdUnsorted(user1, user2) == JoinUnderscore(<<user1, user2>>)

getConversationId(user1, user2) == JoinUnderscore(SortPair(user1, user2))


----------------------------------------------------------------------------
(* The private-messaging server (src/server.js 909-1213): presence maps.   *)

Conns == 1..NumConns
ChatConns == {1, 2}

\* User names: 'a', 'b' and 'a_b'.
Users == {<<97>>, <<98>>, <<97, Underscore, 98>>}
\* The names the presence-only specification logs in with: 'a' and 'b'.
DirUsers == {<<97>>, <<98>>}

\* new Map()
EmptyMap == [k \in {} |-> k]
\* map.set(k, v)
MapSet(m, k, v) == [x \in DOMAIN m \cup {k} |-> IF x = k THEN v ELSE m[x]]
\* map.delete(k)
MapDelete(m, k) == [x \in DOMAIN m \ {k} |-> m[x]]
\* map.has(k)
MapHas(m, k) == k \in DOMAIN m

\* Array.from(activeUsers.values()).map(user => user.username): one entry
\* per key of activeUsers (kept under its key; the array's order is the
\* map's insertion order, which no handler reads).
OnlineUsers(au) == [c \in DOMAIN au |-> au[c].username]

Emit(ev, to, data) == [ev |-> ev, to |-> to, data |-> data]

AuthUsers == {"u1", "u2"}
AuthSockets == {1, 2}
ChatIds == {"chat1"}
NoMessage == "none"

\* No socket has connected; the users are offline and the chat is empty.
AuthServerIdle ==
    /\ sockets = [s \in AuthSockets |-> [state |-> "idle", userId |-> "none"]]
    /\ userOnline = [u \in AuthUsers |-> FALSE]
    /\ msgDocs = <<>>
    /\ chatDocs = [c \in ChatIds |-> [lastMessage |-> NoMessage,
                                      participants |-> AuthUsers]]
    /\ inflight = <<>>

\* The first server (src/server.js 1-727): three users with accounts, each
\* the contact of the others.  No route writes blockedUsers, so nobody is
\* blocked.
FirstUsers == {"alice", "bob", "carol"}
FirstSockets == {1, 2}

\* The first server once it listens: no socket, no message, no chat.
FirstServerIdle ==
    /\ firstSockets = [s \in FirstSockets |-> [state |-> "idle", rooms |-> {}]]
    /\ firstUsers = [u \in FirstUsers |->
                       [isOnline |-> FALSE,
                        contacts |-> FirstUsers \ {u},
                        blockedUsers |-> {}]]
    /\ firstMessages = <<>>
    /\ firstChats = <<>>
    /\ firstCalls = <<>>

\* The global chat (src/unnamed/part_000) once it listens.
GlobalSockets == {1, 2}

GlobalChatIdle ==
    /\ globalConn = [c \in GlobalSockets |-> "idle"]
    /\ globalActiveUsers = EmptyMap
    /\ globalMessages = <<>>
    /\ globalSent = 0

\* The state of the process once the server listens: empty maps, an empty
\* collection, no socket connected.
ServerStart ==
    /\ conn = [c \in Conns \cup ChatConns |-> "idle"]
    /\ activeUsers = EmptyMap
    /\ userSockets = EmptyMap
    /\ messages = <<>>
    /\ pending = <<>>
    /\ emits = <<>>
    /\ now = 0
    /\ stale = {}
    /\ AuthServerIdle
    /\ FirstServerIdle
    /\ GlobalChatIdle

\* io.on('connection')
Connect(c) ==
    /\ conn[c] = "idle"
    /\ conn' = [conn EXCEPT ![c] = "open"]
    /\ emits' = <<>>
    /\ UNCHANGED <<keyVars, globalVars, firstVars, authVars, activeUsers, userSockets, stale, messages, pending, now>>

\* userSockets.set(username, socket.id)
LoginBind(us, username, c) == MapSet(us, username, c)

\* socket.on('user-login'), up to its await of getUserConversations
UserLogin(c, username) ==
    /\ conn[c] = "open"
    /\ activeUsers' = MapSet(activeUsers, c, [username |-> username, userId |-> c])
    /\ userSockets' = LoginBind(userSockets, username, c)
    /\ stale' = stale \cup (IF MapHas(userSockets, username) /\ userSockets[username] # c
                             THEN {<<username, userSockets[username]>>} ELSE {})
    /\ emits' = << Emit("user-online", "all", username),
                   Emit("online-users", c, OnlineUsers(activeUsers')) >>
    /\ pending' = Append(pending, [kind |-> "login", pc |-> "conversations",
                                   socket |-> c, username |-> username])
    /\ UNCHANGED <<keyVars, globalVars, firstVars, authVars, conn, messages, now>>

\* socket.on('disconnect') without the test of activeUsers.get(socket.id)
DisconnectUnguarded(c) ==
    /\ conn[c] = "open"
    /\ conn' = [conn EXCEPT ![c] = "closed"]
    /\ IF MapHas(activeUsers, c)
       THEN /\ activeUsers' = MapDelete(activeUsers, c)
            /\ userSockets' = MapDelete(userSockets, activeUsers[c].username)
            /\ emits' = << Emit("user-offline", "all", activeUsers[c].username) >>
       ELSE /\ UNCHANGED <<activeUsers, userSockets>>
            /\ emits' = << Emit("user-offline", "all", <<>>) >>
    /\ UNCHANGED <<keyVars, globalVars, firstVars, authVars, stale, messages, pending, now>>

\* socket.on('disconnect')
Disconnect(c) ==
    /\ conn[c] = "open"
    /\ conn' = [conn EXCEPT ![c] = "closed"]
    /\ IF MapHas(activeUsers, c)
       THEN /\ activeUsers' = MapDelete(activeUsers, c)
            /\ userSockets' = MapDelete(userSockets, activeUsers[c].username)
            /\ emits' = << Emit("user-offline", "all", activeUsers[c].username) >>
       ELSE /\ UNCHANGED <<activeUsers, userSockets>>
            /\ emits' = <<>>
    /\ UNCHANGED <<keyVars, globalVars, firstVars, authVars, stale, messages, pending, now>>

----------------------------------------------------------------------------
(* The private-messaging server: the MESSAGES collection and the summaries *)
(* (src/server.js 965-1021).  A stored message is                          *)
(* [_id, sender, receiver, timestamp, conversationId, read]; _id is the    *)
(* position of the document in the collection (nothing is ever removed),   *)
(* the text is payload no handler reads.                                   *)

\* str.split('_')
RECURSIVE SplitUnderscore(_)
SplitUnderscore(str) ==
    IF \A i \in 1..Len(str) : str[i] # Underscore THEN <<str>>
    ELSE LET i == CHOOSE k \in 1..Len(str) :
                      /\ str[k] = Underscore
                      /\ \A j \in 1..(k - 1) : str[j] # Underscore
         IN  <<SubSeq(str, 1, i - 1)>> \o SplitUnderscore(SubSeq(str, i + 1, Len(str)))

\* usersInConv.find(user => user !== username); undefined is written <<>>,
\* which `if (partner)` treats like the empty string.
RECURSIVE FindOther(_, _)
FindOther(parts, username) ==
    IF parts = <<>> THEN <<>>
    ELSE IF Head(parts) # username THEN Head(parts)
    ELSE FindOther(Tail(parts), username)

PartnerOf(conversationId, username) ==
    FindOther(SplitUnderscore(conversationId), username)

\* The orders in which a cursor sorted on key[x] may return the items x of
\* S: ascending in key, items of equal key in any order.
SortedOrders(S, key) ==
    {p \in [1..Cardinality(S) -> S] :
        /\ \A i, j \in 1..Cardinality(S) : i # j => p[i] # p[j]
        /\ \A i, j \in 1..Cardinality(S) : i < j => key[p[i]] <= key[p[j]]}

MessageIds == 1..Len(messages)

\* { $match: { $or: [{sender}, {receiver}] } }, { $group: { _id: "$conversationId" } }
ConversationsOf(username) ==
    {messages[i].conversationId :
        i \in {j \in MessageIds : \/ messages[j].sender = username
                                  \/ messages[j].receiver = username}}

\* find({ conversationId }).sort({ timestamp: -1 }).limit(1).next(): a
\* message of the conversation that no other is later than.
LastMessages(conversationId) ==
    {i \in MessageIds :
        /\ messages[i].conversationId = conversationId
        /\ \A j \in MessageIds :
              messages[j].conversationId = conversationId
                  => messages[j].timestamp <= messages[i].timestamp}

\* A slip: every unread message of the conversation is counted, whoever it
\* is addressed to.
UnreadCountAnyReceiver(conversationId, username) ==
    Cardinality({i \in MessageIds :
        /\ messages[i].conversationId = conversationId
        /\ ~messages[i].read})

\* countDocuments({ conversationId, receiver: username, read: false })
UnreadCount(conversationId, username) ==
    Cardinality({i \in MessageIds :
        /\ messages[i].conversationId = conversationId
        /\ messages[i].receiver = username
        /\ ~messages[i].read})

\* One element pushed on userConversations.
SummaryEntry(conversationId, username, last) ==
    [partner |-> PartnerOf(conversationId, username),
     lastMessage |-> [timestamp |-> messages[last].timestamp,
                      sender |-> messages[last].sender],
     unreadCount |-> UnreadCount(conversationId, username)]

\* getUserConversations(username): the arrays it may return.  The reads of
\* one call are taken on one snapshot of the collection.  $group returns
\* the conversations in no particular order and the final sort is by
\* lastMessage.timestamp, most recent first, so conversations of equal
\* time come in any order.
getUserConversations(username) ==
    LET convs == {c \in ConversationsOf(username) : PartnerOf(c, username) # <<>>}
        lasts == {f \in [convs -> MessageIds] : \A c \in convs : f[c] \in LastMessages(c)}
    IN  UNION { { [i \in DOMAIN p |-> SummaryEntry(p[i], username, f[p[i]])] :
                    p \in SortedOrders(convs, [c \in convs |-> 0 - messages[f[c]].timestamp]) } :
                f \in lasts }

\* find({ conversationId }).sort({ timestamp: 1 }).toArray()
ConversationMessages(conversationId) ==
    LET ids == {i \in MessageIds : messages[i].conversationId = conversationId}
    IN  { [k \in DOMAIN p |-> messages[p[k]]] :
            p \in SortedOrders(ids, [i \in ids |-> messages[i].timestamp]) }

\* updateMany() with a filter that leaves out receiver: currentUser
MarkReadAnyReceiver(msgs, conversationId, currentUser) ==
    [i \in DOMAIN msgs |->
        IF /\ msgs[i].conversationId = conversationId
           /\ ~msgs[i].read
        THEN [msgs[i] EXCEPT !.read = TRUE]
        ELSE msgs[i]]

\* updateMany({ conversationId, receiver: currentUser, read: false },
\*            { $set: { read: true } })
MarkRead(msgs, conversationId, currentUser) ==
    [i \in DOMAIN msgs |->
        IF /\ msgs[i].conversationId = conversationId
           /\ msgs[i].receiver = currentUser
           /\ ~msgs[i].read
        THEN [msgs[i] EXCEPT !.read = TRUE]
        ELSE msgs[i]]

Drop(seq, i) == SubSeq(seq, 1, i - 1) \o SubSeq(seq, i + 1, Len(seq))
Replace(seq, i, x) == [seq EXCEPT ![i] = x]

----------------------------------------------------------------------------
(* The private-messaging server: the handlers (src/server.js 1087-1195).   *)
(* A handler runs to its first await when its event arrives; every later   *)
(* step is one database operation together with the code that runs when it *)
(* returns, up to the next await.                                          *)

\* socket.on('user-login'), from the return of getUserConversations
LoginConversations(i) ==
    /\ i \in DOMAIN pending
    /\ pending[i].kind = "login"
    /\ \E result \in getUserConversations(pending[i].username) :
          emits' = << Emit("user-conversations", pending[i].socket, result) >>
    /\ pending' = Drop(pending, i)
    /\ UNCHANGED <<keyVars, globalVars, firstVars, authVars, dirVars, messages, now>>

SendsAccepted ==
    Len(messages)
      + Cardinality({i \in DOMAIN pending :
                        pending[i].kind = "send" /\ pending[i].pc = "insert"})

\* socket.on('join-conversation'), up to the await of find()
JoinConversation(c, currentUser, targetUser) ==
    /\ conn[c] = "open"
    /\ pending' = Append(pending,
          [kind |-> "join", pc |-> "find", socket |-> c,
           currentUser |-> currentUser, targetUser |-> targetUser,
           conversationId |-> getConversationId(currentUser, targetUser)])
    /\ emits' = <<>>
    /\ UNCHANGED <<keyVars, globalVars, firstVars, authVars, dirVars, messages, now>>

\* join-conversation: find() returns, updateMany() is awaited
JoinFind(i) ==
    /\ i \in DOMAIN pending
    /\ pending[i].kind = "join"
    /\ pending[i].pc = "find"
    /\ \E found \in ConversationMessages(pending[i].conversationId) :
          pending' = Replace(pending, i,
              [kind |-> "join", pc |-> "update", socket |-> pending[i].socket,
               currentUser |-> pending[i].currentUser,
               targetUser |-> pending[i].targetUser,
               conversationId |-> pending[i].conversationId,
               conversationMessages |-> found])
    /\ emits' = <<>>
    /\ UNCHANGED <<keyVars, globalVars, firstVars, authVars, dirVars, messages, now>>

\* join-conversation: updateMany() returns, the history is emitted
JoinUpdate(i) ==
    /\ i \in DOMAIN pending
    /\ pending[i].kind = "join"
    /\ pending[i].pc = "update"
    /\ messages' = MarkRead(messages, pending[i].conversationId, pending[i].currentUser)
    /\ emits' = << Emit("conversation-history", pending[i].socket,
                        [conversationId |-> pending[i].conversationId,
                         messages |-> pending[i].conversationMessages,
                         targetUser |-> pending[i].targetUser]) >>
    /\ pending' = Drop(pending, i)
    /\ UNCHANGED <<keyVars, globalVars, firstVars, authVars, dirVars, now>>

\* socket.on('send-private-message'), up to the await of insertOne();
\* new Date() reads t, the clock, which has advanced by t - now since the
\* last event that read it.
SendPrivateMessage(c, sender, receiver, t) ==
    /\ conn[c] = "open"
    /\ t >= now
    /\ now' = t
    /\ pending' = Append(pending,
          [kind |-> "send", pc |-> "insert", socket |-> c,
           message |-> [sender |-> sender, receiver |-> receiver,
                        timestamp |-> t,
                        conversationId |-> getConversationId(sender, receiver),
                        read |-> FALSE]])
    /\ emits' = <<>>
    /\ UNCHANGED <<keyVars, globalVars, firstVars, authVars, dirVars, messages>>

\* A slip: a send whose socket has disconnected is abandoned instead of
\* stored.
SendInsertWhileConnected(i) ==
    /\ i \in DOMAIN pending
    /\ pending[i].kind = "send"
    /\ pending[i].pc = "insert"
    /\ LET m == pending[i].message
           stored == [_id |-> Len(messages) + 1, sender |-> m.sender,
                      receiver |-> m.receiver, timestamp |-> m.timestamp,
                      conversationId |-> m.conversationId, read |-> m.read]
       IN  IF conn[pending[i].socket] = "open"
           THEN /\ messages' = Append(messages, stored)
                /\ emits' = << Emit("new-private-message", pending[i].socket, stored) >>
                /\ pending' = Replace(pending, i,
                      [kind |-> "send", pc |-> "senderConversations",
                       socket |-> pending[i].socket, message |-> stored])
           ELSE /\ UNCHANGED messages
                /\ emits' = <<>>
                /\ pending' = Drop(pending, i)
    /\ UNCHANGED <<keyVars, globalVars, firstVars, authVars, dirVars, now>>

\* send-private-message: insertOne() returns, the message is echoed to the
\* sender and getUserConversations(sender) is awaited
SendInsert(i) ==
    /\ i \in DOMAIN pending
    /\ pending[i].kind = "send"
    /\ pending[i].pc = "insert"
    /\ LET m == pending[i].message
           stored == [_id |-> Len(messages) + 1, sender |-> m.sender,
                      receiver |-> m.receiver, timestamp |-> m.timestamp,
                      conversationId |-> m.conversationId, read |-> m.read]
       IN  /\ messages' = Append(messages, stored)
           /\ emits' = << Emit("new-private-message", pending[i].socket, stored) >>
           /\ pending' = Replace(pending, i,
                 [kind |-> "send", pc |-> "senderConversations",
                  socket |-> pending[i].socket, message |-> stored])
    /\ UNCHANGED <<keyVars, globalVars, firstVars, authVars, dirVars, now>>

\* send-private-message: getUserConversations(sender) returns; the receiver
\* is resolved and, if online, sent the message
SendSenderConversations(i) ==
    /\ i \in DOMAIN pending
    /\ pending[i].kind = "send"
    /\ pending[i].pc = "senderConversations"
    /\ LET m == pending[i].message
           online == MapHas(userSockets, m.receiver)
       IN  /\ \E result \in getUserConversations(m.sender) :
                 emits' = << Emit("user-conversations", pending[i].socket, result) >>
                          \o (IF online
                              THEN << Emit("new-private-message",
                                           userSockets[m.receiver], m) >>
                              ELSE <<>>)
           /\ pending' =
                 IF online
                 THEN Replace(pending, i,
                        [kind |-> "send", pc |-> "receiverConversations",
                         socket |-> pending[i].socket, message |-> m,
                         receiverSocketId |-> userSockets[m.receiver]])
                 ELSE Drop(pending, i)
    /\ UNCHANGED <<keyVars, globalVars, firstVars, authVars, dirVars, messages, now>>

\* send-private-message: getUserConversations(receiver) returns
SendReceiverConversations(i) ==
    /\ i \in DOMAIN pending
    /\ pending[i].kind = "send"
    /\ pending[i].pc = "receiverConversations"
    /\ \E result \in getUserConversations(pending[i].message.receiver) :
          emits' = << Emit("user-conversations", pending[i].receiverSocketId, result) >>
    /\ pending' = Drop(pending, i)
    /\ UNCHANGED <<keyVars, globalVars, firstVars, authVars, dirVars, messages, now>>

\* console.error(label, error): what a catch block writes to the log.
LogError(label) == Emit("console.error", "console", label)

\* getUserConversations(username) when one of its database calls throws:
\* its own catch logs and returns [], so no caller sees an exception.
getUserConversationsFails == <<>>

\* user-login: a database call of getUserConversations throws
LoginConversationsFails(i) ==
    /\ i \in DOMAIN pending
    /\ pending[i].kind = "login"
    /\ emits' = << LogError("Error getting user conversations:"),
                   Emit("user-conversations", pending[i].socket,
                        getUserConversationsFails) >>
    /\ pending' = Drop(pending, i)
    /\ UNCHANGED <<keyVars, globalVars, firstVars, authVars, dirVars, messages, now>>

\* join-conversation: find() throws; the catch logs
JoinFindFails(i) ==
    /\ i \in DOMAIN pending
    /\ pending[i].kind = "join"
    /\ pending[i].pc = "find"
    /\ emits' = << LogError("Error joining conversation:") >>
    /\ pending' = Drop(pending, i)
    /\ UNCHANGED <<keyVars, globalVars, firstVars, authVars, dirVars, messages, now>>

\* join-conversation: updateMany() throws; the catch logs
JoinUpdateFails(i) ==
    /\ i \in DOMAIN pending
    /\ pending[i].kind = "join"
    /\ pending[i].pc = "update"
    /\ emits' = << LogError("Error joining conversation:") >>
    /\ pending' = Drop(pending, i)
    /\ UNCHANGED <<keyVars, globalVars, firstVars, authVars, dirVars, messages, now>>

\* A slip: the message is echoed to the sender although insertOne() threw.
SendInsertFailsEchoed(i) ==
    /\ i \in DOMAIN pending
    /\ pending[i].kind = "send"
    /\ pending[i].pc = "insert"
    /\ emits' = << Emit("new-private-message", pending[i].socket, pending[i].message),
                   LogError("Error sending message:") >>
    /\ pending' = Drop(pending, i)
    /\ UNCHANGED <<keyVars, globalVars, firstVars, authVars, dirVars, messages, now>>

\* send-private-message: insertOne() throws; the outer catch logs
SendInsertFails(i) ==
    /\ i \in DOMAIN pending
    /\ pending[i].kind = "send"
    /\ pending[i].pc = "insert"
    /\ emits' = << LogError("Error sending message:") >>
    /\ pending' = Drop(pending, i)
    /\ UNCHANGED <<keyVars, globalVars, firstVars, authVars, dirVars, messages, now>>

\* send-private-message: a database call of getUserConversations(sender)
\* throws; the sender gets an empty list and the handler goes on to resolve
\* the receiver
SendSenderConversationsFails(i) ==
    /\ i \in DOMAIN pending
    /\ pending[i].kind = "send"
    /\ pending[i].pc = "senderConversations"
    /\ LET m == pending[i].message
           online == MapHas(userSockets, m.receiver)
       IN  /\ emits' = << LogError("Error getting user conversations:"),
                          Emit("user-conversations", pending[i].socket,
                               getUserConversationsFails) >>
                       \o (IF online
                           THEN << Emit("new-private-message",
                                        userSockets[m.receiver], m) >>
                           ELSE <<>>)
           /\ pending' =
                 IF online
                 THEN Replace(pending, i,
                        [kind |-> "send", pc |-> "receiverConversations",
                         socket |-> pending[i].socket, message |-> m,
                         receiverSocketId |-> userSockets[m.receiver]])
                 ELSE Drop(pending, i)
    /\ UNCHANGED <<keyVars, globalVars, firstVars, authVars, dirVars, messages, now>>

\* send-private-message: a database call of getUserConversations(receiver)
\* throws; the receiver gets an empty list
SendReceiverConversationsFails(i) ==
    /\ i \in DOMAIN pending
    /\ pending[i].kind = "send"
    /\ pending[i].pc = "receiverConversations"
    /\ emits' = << LogError("Error getting user conversations:"),
                   Emit("user-conversations", pending[i].receiverSocketId,
                        getUserConversationsFails) >>
    /\ pending' = Drop(pending, i)
    /\ UNCHANGED <<keyVars, globalVars, firstVars, authVars, dirVars, messages, now>>

KeyIdle == keyArgs = <<>> /\ keyRes = <<>>

\* The presence directory alone: connections, logins and disconnects.
DirInit == KeyIdle /\ ServerStart

\* Events arrive while fewer than `cap` handlers are suspended.
Accepting(cap) == Len(pending) < cap

DirNext ==
    \/ \E c \in Conns : Connect(c)
    \/ \E c \in Conns, u \in DirUsers : Accepting(MaxPending) /\ UserLogin(c, u)
    \/ \E c \in Conns : Disconnect(c)
    \/ \E i \in 1..MaxPending : LoginConversations(i)

SpecDir == DirInit /\ [][DirNext]_vars

Init == KeyIdle /\ ServerStart

\* Clients that send.  Socket 1 sends messages between any two names, each
\* in a later millisecond than the one before; socket 2 logs in as 'b', so
\* that a receiver is online for some sends and offline for others.
SendNext ==
    \/ \E c \in {1, 2} : Connect(c)
    \/ \E c \in {2}, u \in {<<98>>} : Accepting(MaxPending) /\ UserLogin(c, u)
    \/ \E c \in {1, 2} : Disconnect(c)
    \/ \E i \in 1..MaxPending : LoginConversations(i)
    \/ \E c \in {1}, u, v \in Users :
          Accepting(MaxPending) /\ SendsAccepted < MaxMsgs
          /\ SendPrivateMessage(c, u, v, now + 1)
    \/ \E i \in 1..MaxPending : SendInsert(i)
    \/ \E i \in 1..MaxPending : SendSenderConversations(i)
    \/ \E i \in 1..MaxPending : SendReceiverConversations(i)

SpecSend == Init /\ [][SendNext]_vars

\* Clients that send and read.  Socket 1 sends messages between any two
\* names; socket 2 logs in as 'b' and opens conversations for any two names.
ReadNext ==
    \/ \E c \in {1, 2} : Connect(c)
    \/ \E c \in {2}, u \in {<<98>>} : Accepting(MaxPending) /\ UserLogin(c, u)
    \/ \E c \in {1, 2} : Disconnect(c)
    \/ \E i \in 1..MaxPending : LoginConversations(i)
    \/ \E c \in {1}, u, v \in Users :
          Accepting(MaxPending) /\ SendsAccepted < MaxMsgs
          /\ \E t \in {now, now + 1} : SendPrivateMessage(c, u, v, t)
    \/ \E i \in 1..MaxPending : SendInsert(i)
    \/ \E i \in 1..MaxPending : SendSenderConversations(i)
    \/ \E i \in 1..MaxPending : SendReceiverConversations(i)
    \/ \E c \in {2}, u, v \in Users :
          Accepting(MaxPending) /\ JoinConversation(c, u, v)
    \/ \E i \in 1..MaxPending : JoinFind(i)
    \/ \E i \in 1..MaxPending : JoinUpdate(i)

SpecRead == Init /\ [][ReadNext]_vars

\* Two users who write to each other and open their conversation.  Socket 1
\* sends messages between 'a' and 'b' in either direction; socket 2 opens
\* conversations between any two of them as either.
MarkNext ==
    \/ \E c \in {1, 2} : Connect(c)
    \/ \E c \in {1, 2} : Disconnect(c)
    \/ \E c \in {1}, u, v \in DirUsers :
          Accepting(MaxPending) /\ SendsAccepted < MaxMsgs /\ u # v
          /\ SendPrivateMessage(c, u, v, now + 1)
    \/ \E i \in 1..MaxPending : SendInsert(i)
    \/ \E i \in 1..MaxPending : SendSenderConversations(i)
    \/ \E c \in {2}, u, v \in DirUsers :
          Accepting(MaxPending) /\ JoinConversation(c, u, v)
    \/ \E i \in 1..MaxPending : JoinFind(i)
    \/ \E i \in 1..MaxPending : JoinUpdate(i)

SpecMark == Init /\ [][MarkNext]_vars

\* The whole private-messaging server.

Next ==
    \/ \E c \in ChatConns : Connect(c)
    \/ \E c \in ChatConns, u \in Users : Accepting(MaxPending) /\ UserLogin(c, u)
    \/ \E c \in ChatConns : Disconnect(c)
    \/ \E i \in 1..MaxPending : LoginConversations(i)
    \/ \E c \in ChatConns, u, v \in Users :
          Accepting(MaxPending) /\ JoinConversation(c, u, v)
    \/ \E i \in 1..MaxPending : JoinFind(i)
    \/ \E i \in 1..MaxPending : JoinUpdate(i)
    \/ \E c \in ChatConns, u, v \in Users :
          Accepting(MaxPending) /\ SendsAccepted < MaxMsgs
          /\ \E t \in {now, now + 1} : SendPrivateMessage(c, u, v, t)
    \/ \E i \in 1..MaxPending : SendInsert(i)
    \/ \E i \in 1..MaxPending : SendSenderConversations(i)
    \/ \E i \in 1..MaxPending : SendReceiverConversations(i)

Spec == Init /\ [][Next]_vars

\* Clients of a database that may fail.  Socket 1 logs in as 'a' and sends
\* to 'b'; socket 2 logs in as 'b' and opens the conversation with 'a'.
\* Every awaited database call may throw.  Each send reads a clock one later
\* than the last, so `now` counts the sends accepted.
FaultNext ==
    \/ \E c \in {1, 2} : Connect(c)
    \/ Accepting(MaxPending) /\ UserLogin(1, <<97>>)
    \/ Accepting(MaxPending) /\ UserLogin(2, <<98>>)
    \/ \E c \in {1, 2} : Disconnect(c)
    \/ \E i \in 1..MaxPending : LoginConversations(i)
    \/ \E i \in 1..MaxPending : LoginConversationsFails(i)
    \/ /\ Accepting(MaxPending) /\ now < MaxMsgs
       /\ SendPrivateMessage(1, <<97>>, <<98>>, now + 1)
    \/ \E i \in 1..MaxPending : SendInsert(i)
    \/ \E i \in 1..MaxPending : SendInsertFails(i)
    \/ \E i \in 1..MaxPending : SendSenderConversations(i)
    \/ \E i \in 1..MaxPending : SendSenderConversationsFails(i)
    \/ \E i \in 1..MaxPending : SendReceiverConversations(i)
    \/ \E i \in 1..MaxPending : SendReceiverConversationsFails(i)
    \/ Accepting(MaxPending) /\ JoinConversation(2, <<98>>, <<97>>)
    \/ \E i \in 1..MaxPending : JoinFind(i)
    \/ \E i \in 1..MaxPending : JoinFindFails(i)
    \/ \E i \in 1..MaxPending : JoinUpdate(i)
    \/ \E i \in 1..MaxPending : JoinUpdateFails(i)

SpecFault == Init /\ [][FaultNext]_vars

\* A client that sends without waiting.  Socket 1 sends from 'a' to 'b',
\* each message in a later millisecond than the one before, while earlier
\* sends are still suspended, and may disconnect at any time; socket 2 is
\* b's.  `now` counts the sends accepted.
OrderNext ==
    \/ \E c \in {1, 2} : Connect(c)
    \/ \E c \in {1, 2} : Disconnect(c)
    \/ Accepting(MaxQueued) /\ UserLogin(2, <<98>>)
    \/ \E i \in 1..MaxQueued : LoginConversations(i)
    \/ /\ Accepting(MaxQueued) /\ now < MaxMsgs
       /\ SendPrivateMessage(1, <<97>>, <<98>>, now + 1)
    \/ \E i \in 1..MaxQueued : SendInsert(i)
    \/ \E i \in 1..MaxQueued : SendSenderConversations(i)
    \/ \E i \in 1..MaxQueued : SendReceiverConversations(i)

SpecOrder == Init /\ [][OrderNext]_vars

\* The database answers the calls it is sent: while handlers are suspended
\* at a call, one of them resumes.
SpecOrderFair ==
    /\ Init
    /\ [][OrderNext]_vars
    /\ WF_vars(\E i \in 1..MaxQueued : LoginConversations(i))
    /\ WF_vars(\E i \in 1..MaxQueued : SendInsert(i))
    /\ WF_vars(\E i \in 1..MaxQueued : SendSenderConversations(i))
    /\ WF_vars(\E i \in 1..MaxQueued : SendReceiverConversations(i))

----------------------------------------------------------------------------
(* The token-authenticated server (src/server.js 1215-1923): Message       *)
(* documents with a status, send_message, message_delivered, message_read. *)
(* Users and chats are documents that exist before the server starts.      *)

\* sent < delivered < read
StatusRank(status) ==
    IF status = "sent" THEN 0 ELSE IF status = "delivered" THEN 1 ELSE 2

\* Message.findByIdAndUpdate(messageId, { status }): the status is
\* overwritten; an id that matches no document changes nothing.
SetStatus(docs, messageId, status) ==
    IF messageId \in DOMAIN docs
    THEN [docs EXCEPT ![messageId].status = status]
    ELSE docs

\* io.use(...) accepted the token of userId; io.on('connection') issues
\* User.findByIdAndUpdate(online: true) without awaiting it and joins the
\* user's room.
AuthConnect(s, userId) ==
    /\ sockets[s].state = "idle"
    /\ sockets' = [sockets EXCEPT ![s] = [state |-> "open", userId |-> userId]]
    /\ inflight' = Append(inflight, [kind |-> "presence", socket |-> s,
                                     userId |-> userId, online |-> TRUE])
    /\ emits' = <<>>
    /\ UNCHANGED <<keyVars, globalVars, firstVars, dirVars, messages, pending, now,
                   userOnline, msgDocs, chatDocs>>

\* socket.on('disconnect'), up to the await of User.findByIdAndUpdate
AuthDisconnect(s) ==
    /\ sockets[s].state = "open"
    /\ sockets' = [sockets EXCEPT ![s].state = "closed"]
    /\ inflight' = Append(inflight, [kind |-> "presence", socket |-> s,
                                     userId |-> sockets[s].userId,
                                     online |-> FALSE])
    /\ emits' = <<>>
    /\ UNCHANGED <<keyVars, globalVars, firstVars, dirVars, messages, pending, now,
                   userOnline, msgDocs, chatDocs>>

\* User.findByIdAndUpdate(socket.userId, { online, lastSeen }) is applied
PresenceWrite(i) ==
    /\ i \in DOMAIN inflight
    /\ inflight[i].kind = "presence"
    /\ userOnline' = [userOnline EXCEPT ![inflight[i].userId] = inflight[i].online]
    /\ inflight' = Drop(inflight, i)
    /\ emits' = <<>>
    /\ UNCHANGED <<keyVars, globalVars, firstVars, dirVars, messages, pending, now,
                   sockets, msgDocs, chatDocs>>

\* socket.on('send_message'), up to the await of newMessage.save()
SendMessage(s, chatId, receiverId) ==
    /\ sockets[s].state = "open"
    /\ inflight' = Append(inflight,
          [kind |-> "send_message", pc |-> "save", socket |-> s,
           newMessage |-> [chatId |-> chatId, senderId |-> sockets[s].userId,
                           receiverId |-> receiverId, status |-> "sent"]])
    /\ emits' = <<>>
    /\ UNCHANGED <<keyVars, globalVars, firstVars, dirVars, messages, pending, now,
                   sockets, userOnline, msgDocs, chatDocs>>

\* send_message: save() returns, Chat.findByIdAndUpdate is awaited
SendMessageSave(i) ==
    /\ i \in DOMAIN inflight
    /\ inflight[i].kind = "send_message"
    /\ inflight[i].pc = "save"
    /\ LET m == inflight[i].newMessage
           saved == [_id |-> Len(msgDocs) + 1, chatId |-> m.chatId,
                     senderId |-> m.senderId, receiverId |-> m.receiverId,
                     status |-> m.status, reactions |-> <<>>, version |-> 0]
       IN  /\ msgDocs' = Append(msgDocs, saved)
           /\ inflight' = Replace(inflight, i,
                 [kind |-> "send_message", pc |-> "chat",
                  socket |-> inflight[i].socket, newMessage |-> saved])
    /\ emits' = <<>>
    /\ UNCHANGED <<keyVars, globalVars, firstVars, dirVars, messages, pending, now,
                   sockets, userOnline, chatDocs>>

\* send_message: Chat.findByIdAndUpdate returns, populate() is awaited
SendMessageChat(i) ==
    /\ i \in DOMAIN inflight
    /\ inflight[i].kind = "send_message"
    /\ inflight[i].pc = "chat"
    /\ chatDocs' = [chatDocs EXCEPT ![inflight[i].newMessage.chatId].lastMessage =
                                       inflight[i].newMessage._id]
    /\ inflight' = Replace(inflight, i, [inflight[i] EXCEPT !.pc = "populate"])
    /\ emits' = <<>>
    /\ UNCHANGED <<keyVars, globalVars, firstVars, dirVars, messages, pending, now,
                   sockets, userOnline, msgDocs>>

\* send_message: populate() returns; the message goes to the receiver's
\* room and back to the sender
SendMessagePopulate(i) ==
    /\ i \in DOMAIN inflight
    /\ inflight[i].kind = "send_message"
    /\ inflight[i].pc = "populate"
    /\ emits' = << Emit("new_message", inflight[i].newMessage.receiverId,
                        inflight[i].newMessage),
                   Emit("message_sent", inflight[i].socket, inflight[i].newMessage) >>
    /\ inflight' = Drop(inflight, i)
    /\ UNCHANGED <<keyVars, globalVars, firstVars, dirVars, messages, pending, now,
                   sockets, userOnline, msgDocs, chatDocs>>

\* socket.on('message_delivered'), up to the await of findByIdAndUpdate
MessageDelivered(s, messageId) ==
    /\ sockets[s].state = "open"
    /\ inflight' = Append(inflight, [kind |-> "message_delivered", pc |-> "update",
                                     socket |-> s, messageId |-> messageId])
    /\ emits' = <<>>
    /\ UNCHANGED <<keyVars, globalVars, firstVars, dirVars, messages, pending, now,
                   sockets, userOnline, msgDocs, chatDocs>>

\* A status handler: findByIdAndUpdate returns, findById is awaited
StatusUpdate(i, kind, status) ==
    /\ i \in DOMAIN inflight
    /\ inflight[i].kind = kind
    /\ inflight[i].pc = "update"
    /\ msgDocs' = SetStatus(msgDocs, inflight[i].messageId, status)
    /\ inflight' = Replace(inflight, i, [inflight[i] EXCEPT !.pc = "find"])
    /\ emits' = <<>>
    /\ UNCHANGED <<keyVars, globalVars, firstVars, dirVars, messages, pending, now,
                   sockets, userOnline, chatDocs>>

\* A status handler: findById returns; if the message exists its sender's
\* room is told the status
StatusNotify(i, kind, status) ==
    /\ i \in DOMAIN inflight
    /\ inflight[i].kind = kind
    /\ inflight[i].pc = "find"
    /\ emits' = IF inflight[i].messageId \in DOMAIN msgDocs
                THEN << Emit("message_status", msgDocs[inflight[i].messageId].senderId,
                             [messageId |-> inflight[i].messageId, status |-> status]) >>
                ELSE <<>>
    /\ inflight' = Drop(inflight, i)
    /\ UNCHANGED <<keyVars, globalVars, firstVars, dirVars, messages, pending, now,
                   sockets, userOnline, msgDocs, chatDocs>>

\* message_delivered: findByIdAndUpdate(messageId, { status: 'delivered' })
MessageDeliveredUpdate(i) == StatusUpdate(i, "message_delivered", "delivered")
\* message_delivered: the sender is told 'delivered'
MessageDeliveredNotify(i) == StatusNotify(i, "message_delivered", "delivered")

\* socket.on('message_read'), up to the await of findByIdAndUpdate
MessageRead(s, messageId) ==
    /\ sockets[s].state = "open"
    /\ inflight' = Append(inflight, [kind |-> "message_read", pc |-> "update",
                                     socket |-> s, messageId |-> messageId])
    /\ emits' = <<>>
    /\ UNCHANGED <<keyVars, globalVars, firstVars, dirVars, messages, pending, now,
                   sockets, userOnline, msgDocs, chatDocs>>

\* message_read: findByIdAndUpdate(messageId, { status: 'read' })
MessageReadUpdate(i) == StatusUpdate(i, "message_read", "read")
\* message_read: the sender is told 'read'
MessageReadNotify(i) == StatusNotify(i, "message_read", "read")

SendsIssued ==
    Len(msgDocs)
      + Cardinality({i \in DOMAIN inflight :
                        inflight[i].kind = "send_message" /\ inflight[i].pc = "save"})

AuthAccepting == Len(inflight) < MaxInFlight

\* Clients of the token-authenticated server: sockets of either user that
\* send into the chat and report messages delivered and read.
StatusNext ==
    \/ \E s \in AuthSockets, u \in AuthUsers : AuthAccepting /\ AuthConnect(s, u)
    \/ \E s \in AuthSockets : AuthAccepting /\ AuthDisconnect(s)
    \/ \E i \in 1..MaxInFlight : PresenceWrite(i)
    \/ \E s \in AuthSockets, c \in ChatIds, r \in AuthUsers :
          AuthAccepting /\ SendsIssued < MaxDocs /\ SendMessage(s, c, r)
    \/ \E i \in 1..MaxInFlight : SendMessageSave(i)
    \/ \E i \in 1..MaxInFlight : SendMessageChat(i)
    \/ \E i \in 1..MaxInFlight : SendMessagePopulate(i)
    \/ \E s \in AuthSockets, m \in 1..MaxDocs : AuthAccepting /\ MessageDelivered(s, m)
    \/ \E i \in 1..MaxInFlight : MessageDeliveredUpdate(i)
    \/ \E i \in 1..MaxInFlight : MessageDeliveredNotify(i)
    \/ \E s \in AuthSockets, m \in 1..MaxDocs : AuthAccepting /\ MessageRead(s, m)
    \/ \E i \in 1..MaxInFlight : MessageReadUpdate(i)
    \/ \E i \in 1..MaxInFlight : MessageReadNotify(i)

SpecStatus == Init /\ [][StatusNext]_vars

\* C4: no step lowers the status of a stored message in the order
\* sent < delivered < read; a message that is read stays read.
C4_StatusOnlyAdvances ==
    [][\A m \in DOMAIN msgDocs :
          StatusRank(msgDocs'[m].status) >= StatusRank(msgDocs[m].status)]_vars

\* C5: when the update of a message_delivered is applied while a
\* message_read of the same message is in flight with its own update
\* already applied, the message is left read.
C5_ConcurrentStatusIsRead ==
    [][\A i \in DOMAIN inflight :
          (/\ MessageDeliveredUpdate(i)
           /\ inflight[i].messageId \in DOMAIN msgDocs
           /\ \E j \in DOMAIN inflight :
                 /\ inflight[j].kind = "message_read"
                 /\ inflight[j].pc = "find"
                 /\ inflight[j].messageId = inflight[i].messageId)
          => \A m \in {inflight[i].messageId} : msgDocs'[m].status = "read"]_vars

----------------------------------------------------------------------------
(* The token-authenticated server: react_to_message (src/server.js         *)
(* 1785-1819).  The handler loads the message, edits the reactions of its  *)
(* copy and saves the copy.  message.save() sends the database the changes *)
(* made to the copy since it was loaded: an array that was assigned a      *)
(* different value is written whole, guarded by the document version the   *)
(* copy was loaded with (a stale version rejects with VersionError);       *)
(* elements pushed on an array that was not otherwise changed are appended *)
(* to the stored array, whatever it holds by then; a copy without changes  *)
(* writes nothing.  Every write of the array increments the version.       *)

\* The emoji of an event; NoEmoji is the absent (falsy) one.
NoEmoji == ""
Emojis == {"thumb", "heart", NoEmoji}

\* message.reactions.filter(reaction => reaction.userId.toString() !== userId)
RECURSIVE WithoutUser(_, _)
WithoutUser(reactions, userId) ==
    IF reactions = <<>> THEN <<>>
    ELSE IF Head(reactions).userId = userId
         THEN WithoutUser(Tail(reactions), userId)
         ELSE <<Head(reactions)>> \o WithoutUser(Tail(reactions), userId)

\* if (emoji) message.reactions.push({ userId, emoji }): what is pushed
Pushed(userId, emoji) ==
    IF emoji # NoEmoji THEN << [userId |-> userId, emoji |-> emoji] >> ELSE <<>>

\* socket.on('react_to_message'), up to the await of Message.findById
ReactToMessage(s, messageId, emoji) ==
    /\ sockets[s].state = "open"
    /\ inflight' = Append(inflight,
          [kind |-> "react_to_message", pc |-> "find", socket |-> s,
           userId |-> sockets[s].userId, messageId |-> messageId, emoji |-> emoji])
    /\ emits' = <<>>
    /\ UNCHANGED <<keyVars, globalVars, firstVars, dirVars, messages, pending, now,
                   sockets, userOnline, msgDocs, chatDocs>>

\* react_to_message: findById returns.  Without a message the socket gets
\* an error; otherwise the copy is edited and save() is awaited.
ReactFind(i) ==
    /\ i \in DOMAIN inflight
    /\ inflight[i].kind = "react_to_message"
    /\ inflight[i].pc = "find"
    /\ IF inflight[i].messageId \notin DOMAIN msgDocs
       THEN /\ emits' = << Emit("error", inflight[i].socket, "Message not found") >>
            /\ inflight' = Drop(inflight, i)
       ELSE LET loaded == msgDocs[inflight[i].messageId]
                kept == WithoutUser(loaded.reactions, inflight[i].userId)
            IN  /\ emits' = <<>>
                /\ inflight' = Replace(inflight, i,
                      [kind |-> "react_to_message", pc |-> "save",
                       socket |-> inflight[i].socket, userId |-> inflight[i].userId,
                       messageId |-> inflight[i].messageId,
                       emoji |-> inflight[i].emoji,
                       message |-> [chatId |-> loaded.chatId,
                                    version |-> loaded.version,
                                    assigned |-> kept # loaded.reactions,
                                    reactions |-> kept \o Pushed(inflight[i].userId,
                                                                 inflight[i].emoji)]])
    /\ UNCHANGED <<keyVars, globalVars, firstVars, dirVars, messages, pending, now,
                   sockets, userOnline, msgDocs, chatDocs>>

\* The save of the copy would be rejected: the array is written whole and
\* the stored version is no longer the one the copy was loaded with.
VersionConflict(task) ==
    /\ task.message.assigned
    /\ msgDocs[task.messageId].version # task.message.version

\* message.save() applied to the stored document, when it is not rejected
SaveReactions(stored, task) ==
    IF task.message.assigned
    THEN [stored EXCEPT !.reactions = task.message.reactions, !.version = @ + 1]
    ELSE IF task.emoji # NoEmoji
         THEN [stored EXCEPT !.reactions = @ \o Pushed(task.userId, task.emoji),
                             !.version = @ + 1]
         ELSE stored

\* react_to_message: save() returns or rejects; after a save
\* Chat.findById is awaited, after a rejection the catch runs
ReactSave(i) ==
    /\ i \in DOMAIN inflight
    /\ inflight[i].kind = "react_to_message"
    /\ inflight[i].pc = "save"
    /\ IF VersionConflict(inflight[i])
       THEN /\ emits' = << LogError("Reaction error:"),
                           Emit("error", inflight[i].socket, "Failed to react to message") >>
            /\ inflight' = Drop(inflight, i)
            /\ UNCHANGED msgDocs
       ELSE /\ msgDocs' = [msgDocs EXCEPT ![inflight[i].messageId] =
                                             SaveReactions(@, inflight[i])]
            /\ inflight' = Replace(inflight, i, [inflight[i] EXCEPT !.pc = "chat"])
            /\ emits' = <<>>
    /\ UNCHANGED <<keyVars, globalVars, firstVars, dirVars, messages, pending, now,
                   sockets, userOnline, chatDocs>>

\* react_to_message: Chat.findById returns; every participant's room is
\* sent the reactions of the copy
ReactChat(i) ==
    /\ i \in DOMAIN inflight
    /\ inflight[i].kind = "react_to_message"
    /\ inflight[i].pc = "chat"
    /\ \E order \in SortedOrders(chatDocs[inflight[i].message.chatId].participants,
                                 [u \in AuthUsers |-> 0]) :
          emits' = [k \in DOMAIN order |->
                       Emit("message_reacted", order[k],
                            [messageId |-> inflight[i].messageId,
                             reactions |-> inflight[i].message.reactions])]
    /\ inflight' = Drop(inflight, i)
    /\ UNCHANGED <<keyVars, globalVars, firstVars, dirVars, messages, pending, now,
                   sockets, userOnline, msgDocs, chatDocs>>

\* Reaction events are accepted while the writes made and the handlers in
\* flight cannot take a document version beyond MaxVersion.
ReactsAccepted ==
    \A m \in DOMAIN msgDocs :
        msgDocs[m].version
          + Cardinality({i \in DOMAIN inflight : inflight[i].kind = "react_to_message"})
            < MaxVersion

\* Clients that react.  Socket 1 is u1's and socket 2 is u2's; socket 1
\* sends into the chat and both react to messages.
ReactNext ==
    \/ AuthAccepting /\ AuthConnect(1, "u1")
    \/ AuthAccepting /\ AuthConnect(2, "u2")
    \/ \E i \in 1..MaxInFlight : PresenceWrite(i)
    \/ \E c \in ChatIds, r \in AuthUsers :
          AuthAccepting /\ SendsIssued < MaxDocs /\ SendMessage(1, c, r)
    \/ \E i \in 1..MaxInFlight : SendMessageSave(i)
    \/ \E i \in 1..MaxInFlight : SendMessageChat(i)
    \/ \E i \in 1..MaxInFlight : SendMessagePopulate(i)
    \/ \E s \in AuthSockets, m \in 1..MaxDocs, e \in Emojis :
          AuthAccepting /\ ReactsAccepted /\ ReactToMessage(s, m, e)
    \/ \E i \in 1..MaxInFlight : ReactFind(i)
    \/ \E i \in 1..MaxInFlight : ReactSave(i)
    \/ \E i \in 1..MaxInFlight : ReactChat(i)

SpecReact == Init /\ [][ReactNext]_vars

\* The entries of a reactions list that belong to userId.
ReactionsOf(reactions, userId) ==
    {k \in DOMAIN reactions : reactions[k].userId = userId}

\* C13: the reactions of every stored message hold at most one entry of any
\* user.
C13_OneReactionPerUser ==
    \A m \in DOMAIN msgDocs, u \in AuthUsers :
        Cardinality(ReactionsOf(msgDocs[m].reactions, u)) <= 1

\* the reactions of a list that are not userId's, in order
RECURSIVE OthersReactions(_, _)
OthersReactions(reactions, userId) ==
    IF reactions = <<>> THEN <<>>
    ELSE IF Head(reactions).userId = userId
         THEN OthersReactions(Tail(reactions), userId)
         ELSE <<Head(reactions)>> \o OthersReactions(Tail(reactions), userId)

\* C31: when the save of a react_to_message event without an emoji returns
\* or is rejected, the message holds no reaction of the event's user, the
\* reactions of the other users on it are what they were, and every other
\* message is unchanged.
C31_RemovalLeavesNoReaction ==
    [][\A i \in DOMAIN inflight :
          (ReactSave(i) /\ inflight[i].emoji = NoEmoji)
          => \A m \in {inflight[i].messageId}, u \in {inflight[i].userId} :
                /\ ReactionsOf(msgDocs'[m].reactions, u) = {}
                /\ OthersReactions(msgDocs'[m].reactions, u)
                     = OthersReactions(msgDocs[m].reactions, u)
                /\ \A n \in DOMAIN msgDocs \ {m} : msgDocs'[n] = msgDocs[n]]_vars

----------------------------------------------------------------------------
(* The token-authenticated server with a database that may fail.           *)

\* The send_message catch block: the failure is logged and the socket is
\* sent an error.
SendMessageCatch(i) ==
    /\ emits' = << LogError("Message send error:"),
                   Emit("error", inflight[i].socket, "Failed to send message") >>
    /\ inflight' = Drop(inflight, i)

\* send_message: newMessage.save() rejects
SendMessageSaveFails(i) ==
    /\ i \in DOMAIN inflight
    /\ inflight[i].kind = "send_message"
    /\ inflight[i].pc = "save"
    /\ SendMessageCatch(i)
    /\ UNCHANGED <<keyVars, globalVars, firstVars, dirVars, messages, pending, now,
                   sockets, userOnline, msgDocs, chatDocs>>

\* send_message: Chat.findByIdAndUpdate rejects, after the message was saved
SendMessageChatFails(i) ==
    /\ i \in DOMAIN inflight
    /\ inflight[i].kind = "send_message"
    /\ inflight[i].pc = "chat"
    /\ SendMessageCatch(i)
    /\ UNCHANGED <<keyVars, globalVars, firstVars, dirVars, messages, pending, now,
                   sockets, userOnline, msgDocs, chatDocs>>

\* send_message: populate() rejects, after the message was saved and the
\* chat updated
SendMessagePopulateFails(i) ==
    /\ i \in DOMAIN inflight
    /\ inflight[i].kind = "send_message"
    /\ inflight[i].pc = "populate"
    /\ SendMessageCatch(i)
    /\ UNCHANGED <<keyVars, globalVars, firstVars, dirVars, messages, pending, now,
                   sockets, userOnline, msgDocs, chatDocs>>

\* The process exits: every connection is gone and no handler resumes.
ProcessExit ==
    /\ sockets' = [s \in AuthSockets |-> [sockets[s] EXCEPT !.state = "down"]]
    /\ inflight' = <<>>

\* User.findByIdAndUpdate(socket.userId, { online, lastSeen }) rejects.
\* Neither the connection handler, which does not await the call, nor the
\* disconnect handler catches the rejection, and the server registers no
\* unhandledRejection handler: the runtime either only warns or ends the
\* process, depending on its version and flags.
PresenceWriteFails(i) ==
    /\ i \in DOMAIN inflight
    /\ inflight[i].kind = "presence"
    /\ \/ inflight' = Drop(inflight, i) /\ UNCHANGED sockets
       \/ ProcessExit
    /\ emits' = <<>>
    /\ UNCHANGED <<keyVars, globalVars, firstVars, dirVars, messages, pending, now,
                   userOnline, msgDocs, chatDocs>>

\* Socket 1 is u1's and sends to u2, socket 2 is u2's; every awaited
\* database call may reject.
AuthFaultNext ==
    \/ AuthAccepting /\ AuthConnect(1, "u1")
    \/ AuthAccepting /\ AuthConnect(2, "u2")
    \/ \E s \in AuthSockets : AuthAccepting /\ AuthDisconnect(s)
    \/ \E i \in 1..MaxInFlight : PresenceWrite(i)
    \/ \E i \in 1..MaxInFlight : PresenceWriteFails(i)
    \/ \E c \in ChatIds :
          AuthAccepting /\ SendsIssued < MaxDocs /\ SendMessage(1, c, "u2")
    \/ \E i \in 1..MaxInFlight : SendMessageSave(i)
    \/ \E i \in 1..MaxInFlight : SendMessageSaveFails(i)
    \/ \E i \in 1..MaxInFlight : SendMessageChat(i)
    \/ \E i \in 1..MaxInFlight : SendMessageChatFails(i)
    \/ \E i \in 1..MaxInFlight : SendMessagePopulate(i)
    \/ \E i \in 1..MaxInFlight : SendMessagePopulateFails(i)

SpecAuthFault == Init /\ [][AuthFaultNext]_vars

\* C15: when a send_message handler ends in its catch block, reporting an
\* error to the sender, the message it built is not in the store and is not
\* the chat's last message, and the step emits no new_message or
\* message_sent.
C15_FailedSendLeavesNothing ==
    [][\A i \in DOMAIN inflight :
          (SendMessageSaveFails(i) \/ SendMessageChatFails(i)
             \/ SendMessagePopulateFails(i))
          => /\ \A k \in DOMAIN emits' :
                   emits'[k].ev \notin {"new_message", "message_sent"}
             /\ \A m \in {inflight[i].newMessage} :
                   "_id" \in DOMAIN m
                   => /\ m._id \notin DOMAIN msgDocs'
                      /\ chatDocs'[m.chatId].lastMessage # m._id]_vars

\* C18: a database failure in a handler of one socket leaves every other
\* open socket as it was.
C18_ErrorsAreConnectionLocal ==
    [][\A i \in DOMAIN inflight :
          PresenceWriteFails(i)
          => \A s \in AuthSockets \ {inflight[i].socket} :
                sockets[s].state = "open" => sockets'[s] = sockets[s]]_vars

----------------------------------------------------------------------------
(* The token-authenticated server: typing_start and typing_stop            *)
(* (src/server.js 1826-1840).  socket.to(room).emit(...) reaches the       *)
(* sockets that are in the room at that moment, the emitting socket        *)
(* excepted; every open socket is in the room named by its user's id and   *)
(* leaves it when it disconnects.                                          *)

\* the users a typing event may name: u3 has an account and never connects
TypingTargets == AuthUsers \cup {"u3"}

\* the sockets in the room of a user
RoomSockets(userId) ==
    {s \in AuthSockets : sockets[s].state = "open" /\ sockets[s].userId = userId}

\* socket.broadcast.emit('user_typing', ...) in place of socket.to(receiverId)
TypingStartBroadcast(s, chatId, receiverId) ==
    /\ sockets[s].state = "open"
    /\ \E order \in SortedOrders({r \in AuthSockets : sockets[r].state = "open"} \ {s},
                                 [r \in AuthSockets |-> 0]) :
          emits' = [k \in DOMAIN order |->
                       Emit("user_typing", order[k],
                            [chatId |-> chatId, userId |-> sockets[s].userId])]
    /\ UNCHANGED <<inflight, sockets, userOnline, msgDocs, chatDocs,
                   keyVars, globalVars, firstVars, dirVars, messages, pending, now>>

\* socket.on('typing_start')
TypingStart(s, chatId, receiverId) ==
    /\ sockets[s].state = "open"
    /\ \E order \in SortedOrders(RoomSockets(receiverId) \ {s},
                                 [r \in AuthSockets |-> 0]) :
          emits' = [k \in DOMAIN order |->
                       Emit("user_typing", order[k],
                            [chatId |-> chatId, userId |-> sockets[s].userId])]
    /\ UNCHANGED <<inflight, sockets, userOnline, msgDocs, chatDocs,
                   keyVars, globalVars, firstVars, dirVars, messages, pending, now>>

\* socket.on('typing_stop')
TypingStop(s, chatId, receiverId) ==
    /\ sockets[s].state = "open"
    /\ \E order \in SortedOrders(RoomSockets(receiverId) \ {s},
                                 [r \in AuthSockets |-> 0]) :
          emits' = [k \in DOMAIN order |->
                       Emit("user_stopped_typing", order[k],
                            [chatId |-> chatId, userId |-> sockets[s].userId])]
    /\ UNCHANGED <<inflight, sockets, userOnline, msgDocs, chatDocs,
                   keyVars, globalVars, firstVars, dirVars, messages, pending, now>>

\* Clients that type.  Either socket may be either user's; socket 1 sends
\* into the chat, both report typing to any user.
TypingNext ==
    \/ \E s \in AuthSockets, u \in AuthUsers : AuthAccepting /\ AuthConnect(s, u)
    \/ \E s \in AuthSockets : AuthAccepting /\ AuthDisconnect(s)
    \/ \E i \in 1..MaxInFlight : PresenceWrite(i)
    \/ \E c \in ChatIds, r \in AuthUsers :
          AuthAccepting /\ SendsIssued < MaxDocs /\ SendMessage(1, c, r)
    \/ \E i \in 1..MaxInFlight : SendMessageSave(i)
    \/ \E i \in 1..MaxInFlight : SendMessageChat(i)
    \/ \E i \in 1..MaxInFlight : SendMessagePopulate(i)
    \/ \E s \in AuthSockets, c \in ChatIds, r \in TypingTargets : TypingStart(s, c, r)
    \/ \E s \in AuthSockets, c \in ChatIds, r \in TypingTargets : TypingStop(s, c, r)

SpecTyping == Init /\ [][TypingNext]_vars

\* C28: a typing_start or typing_stop event changes no stored message, no
\* chat, no user record, no socket and no suspended handler, and what it
\* emits goes to open sockets of the named receiver only; when the receiver
\* has no open socket other than the emitting one, nothing is emitted.
C28_TypingStatelessPointToPoint ==
    [][\A s \in AuthSockets, c \in ChatIds, r \in TypingTargets :
          (TypingStart(s, c, r) \/ TypingStop(s, c, r))
          => /\ UNCHANGED <<msgDocs, chatDocs, userOnline, sockets, inflight>>
             /\ UNCHANGED <<activeUsers, userSockets, messages>>
             /\ \A k \in DOMAIN emits' :
                   /\ emits'[k].ev \in {"user_typing", "user_stopped_typing"}
                   /\ emits'[k].to \in RoomSockets(r) \ {s}
             /\ (RoomSockets(r) \ {s} = {}) => emits' = <<>>]_vars

\* a typing event has just been forwarded to the one open socket of its
\* receiver while a message is stored
C28_Witness ==
    /\ Len(emits) = 1
    /\ emits[1].ev = "user_typing"
    /\ emits[1].to \in AuthSockets
    /\ DOMAIN msgDocs # {}

----------------------------------------------------------------------------
(* The first server (src/server.js 1-727): users, rooms, messages with a   *)
(* status and a deleted flag, chats.  A socket is in the rooms it joined   *)
(* until it disconnects; socket.io empties socket.rooms before it calls    *)
(* the disconnect handler.  socket.to(room).emit(...) reaches the sockets  *)
(* of the room except the emitting one, io.to(room).emit(...) all of them. *)
(* A route starts once authenticateToken has accepted the token of         *)
(* req.user; its response is recorded as an emit to that user.  A message  *)
(* is [_id, senderId, receiverId, status, deleted, timestamp]: chatId,     *)
(* type, text and media are payload no handler reads.                      *)

\* io.sockets.adapter.rooms.get(room)
RoomMembers(room) ==
    {s \in FirstSockets : firstSockets[s].state = "open" /\ room \in firstSockets[s].rooms}

\* the arrays of events that emitting ev to the sockets of S may produce
RoomEmits(ev, S, data) ==
    { [k \in DOMAIN order |-> Emit(ev, order[k], data)] :
        order \in SortedOrders(S, [r \in FirstSockets |-> 0]) }

\* res.status(status).json(body)
Response(user, status, body) ==
    Emit("response", user, [status |-> status, body |-> body])

FirstMessageIds == DOMAIN firstMessages

\* io.on('connection')
FirstConnect(s) ==
    /\ firstSockets[s].state = "idle"
    /\ firstSockets' = [firstSockets EXCEPT ![s].state = "open"]
    /\ emits' = <<>>
    /\ UNCHANGED <<firstCalls, firstUsers, firstMessages, firstChats,
                   keyVars, globalVars, dirVars, authVars, messages, pending, now>>

\* socket.on('disconnect'): the socket has left its rooms, so the handler
\* finds no userRoom
FirstDisconnect(s) ==
    /\ firstSockets[s].state = "open"
    /\ firstSockets' = [firstSockets EXCEPT ![s] = [state |-> "closed", rooms |-> {}]]
    /\ emits' = <<>>
    /\ UNCHANGED <<firstCalls, firstUsers, firstMessages, firstChats,
                   keyVars, globalVars, dirVars, authVars, messages, pending, now>>

\* socket.on('join'), up to the await of User.findByIdAndUpdate
FirstJoin(s, userId) ==
    /\ firstSockets[s].state = "open"
    /\ firstSockets' = [firstSockets EXCEPT ![s].rooms = @ \cup {userId}]
    /\ firstCalls' = Append(firstCalls, [kind |-> "join", pc |-> "online",
                                         socket |-> s, userId |-> userId])
    /\ emits' = <<>>
    /\ UNCHANGED <<firstUsers, firstMessages, firstChats,
                   keyVars, globalVars, dirVars, authVars, messages, pending, now>>

\* join: User.findByIdAndUpdate(isOnline: true) returns
FirstJoinOnline(i) ==
    /\ i \in DOMAIN firstCalls
    /\ firstCalls[i].kind = "join"
    /\ firstCalls[i].pc = "online"
    /\ firstUsers' = [firstUsers EXCEPT ![firstCalls[i].userId].isOnline = TRUE]
    /\ firstCalls' = Replace(firstCalls, i, [firstCalls[i] EXCEPT !.pc = "contacts"])
    /\ emits' = <<>>
    /\ UNCHANGED <<firstSockets, firstMessages, firstChats,
                   keyVars, globalVars, dirVars, authVars, messages, pending, now>>

\* join: User.findById(userId).populate('contacts') returns; the room of
\* every contact is told that the user is online
FirstJoinContacts(i) ==
    /\ i \in DOMAIN firstCalls
    /\ firstCalls[i].kind = "join"
    /\ firstCalls[i].pc = "contacts"
    /\ LET told == {p \in firstUsers[firstCalls[i].userId].contacts \X FirstSockets :
                        p[2] \in RoomMembers(p[1]) \ {firstCalls[i].socket}}
       IN  \E order \in SortedOrders(told, [p \in told |-> 0]) :
              emits' = [k \in DOMAIN order |->
                           Emit("userOnline", order[k][2],
                                [userId |-> firstCalls[i].userId])]
    /\ firstCalls' = Drop(firstCalls, i)
    /\ UNCHANGED <<firstSockets, firstUsers, firstMessages, firstChats,
                   keyVars, globalVars, dirVars, authVars, messages, pending, now>>

\* socket.on('sendMessage'), up to the await of User.findById(receiverId)
FirstSendMessage(s, senderId, receiverId) ==
    /\ firstSockets[s].state = "open"
    /\ firstCalls' = Append(firstCalls,
          [kind |-> "sendMessage", pc |-> "receiver", socket |-> s,
           senderId |-> senderId, receiverId |-> receiverId])
    /\ emits' = <<>>
    /\ UNCHANGED <<firstSockets, firstUsers, firstMessages, firstChats,
                   keyVars, globalVars, dirVars, authVars, messages, pending, now>>

\* sendMessage: User.findById returns.  A blocked sender gets an error;
\* otherwise the message is built, its timestamp read from the clock, and
\* newMessage.save() is awaited.
FirstSendReceiver(i) ==
    /\ i \in DOMAIN firstCalls
    /\ firstCalls[i].kind = "sendMessage"
    /\ firstCalls[i].pc = "receiver"
    /\ IF firstCalls[i].senderId \in firstUsers[firstCalls[i].receiverId].blockedUsers
       THEN /\ emits' = << Emit("error", firstCalls[i].socket,
                                "You are blocked by this user") >>
            /\ firstCalls' = Drop(firstCalls, i)
            /\ UNCHANGED now
       ELSE /\ \E t \in {now, now + 1} :
                  /\ now' = t
                  /\ firstCalls' = Replace(firstCalls, i,
                        [kind |-> "sendMessage", pc |-> "save",
                         socket |-> firstCalls[i].socket,
                         newMessage |-> [senderId |-> firstCalls[i].senderId,
                                         receiverId |-> firstCalls[i].receiverId,
                                         status |-> "sent", deleted |-> FALSE,
                                         timestamp |-> t]])
            /\ emits' = <<>>
    /\ UNCHANGED <<firstSockets, firstUsers, firstMessages, firstChats,
                   keyVars, globalVars, dirVars, authVars, messages, pending>>

\* sendMessage: the first newMessage.save() returns
FirstSendSave(i) ==
    /\ i \in DOMAIN firstCalls
    /\ firstCalls[i].kind = "sendMessage"
    /\ firstCalls[i].pc = "save"
    /\ LET saved == [_id |-> Len(firstMessages) + 1,
                     senderId |-> firstCalls[i].newMessage.senderId,
                     receiverId |-> firstCalls[i].newMessage.receiverId,
                     status |-> firstCalls[i].newMessage.status,
                     deleted |-> firstCalls[i].newMessage.deleted,
                     timestamp |-> firstCalls[i].newMessage.timestamp]
       IN  /\ firstMessages' = Append(firstMessages, saved)
           /\ firstCalls' = Replace(firstCalls, i,
                 [kind |-> "sendMessage", pc |-> "populateSender",
                  socket |-> firstCalls[i].socket, newMessage |-> saved])
    /\ emits' = <<>>
    /\ UNCHANGED <<firstSockets, firstUsers, firstChats,
                   keyVars, globalVars, dirVars, authVars, messages, pending, now>>

\* sendMessage: populate('senderId') returns
FirstSendPopulateSender(i) ==
    /\ i \in DOMAIN firstCalls
    /\ firstCalls[i].kind = "sendMessage"
    /\ firstCalls[i].pc = "populateSender"
    /\ firstCalls' = Replace(firstCalls, i,
          [firstCalls[i] EXCEPT !.pc = "populateReceiver"])
    /\ emits' = <<>>
    /\ UNCHANGED <<firstSockets, firstUsers, firstMessages, firstChats,
                   keyVars, globalVars, dirVars, authVars, messages, pending, now>>

\* sendMessage: populate('receiverId') returns, and status delivered is set
\* whether or not the receiver's room has a member
FirstSendPopulateReceiverAlways(i) ==
    /\ i \in DOMAIN firstCalls
    /\ firstCalls[i].kind = "sendMessage"
    /\ firstCalls[i].pc = "populateReceiver"
    /\ emits' = << Emit("messageSent", firstCalls[i].socket, firstCalls[i].newMessage) >>
    /\ firstCalls' = Replace(firstCalls, i,
          [kind |-> "sendMessage", pc |-> "delivered",
           socket |-> firstCalls[i].socket,
           receiverSocket |-> RoomMembers(firstCalls[i].newMessage.receiverId),
           newMessage |-> [firstCalls[i].newMessage EXCEPT !.status = "delivered"]])
    /\ UNCHANGED <<firstSockets, firstUsers, firstMessages, firstChats,
                   keyVars, globalVars, dirVars, authVars, messages, pending, now>>

\* sendMessage: populate('receiverId') returns.  The sender is sent
\* messageSent and the receiver's room is looked up: if it has a member,
\* status delivered is set on the copy and the second save() awaited,
\* otherwise Chat.findOne is awaited.
FirstSendPopulateReceiver(i) ==
    /\ i \in DOMAIN firstCalls
    /\ firstCalls[i].kind = "sendMessage"
    /\ firstCalls[i].pc = "populateReceiver"
    /\ emits' = << Emit("messageSent", firstCalls[i].socket, firstCalls[i].newMessage) >>
    /\ LET receiverSocket == RoomMembers(firstCalls[i].newMessage.receiverId)
       IN  firstCalls' = Replace(firstCalls, i,
              [kind |-> "sendMessage",
               pc |-> IF receiverSocket # {} THEN "delivered" ELSE "chat",
               socket |-> firstCalls[i].socket,
               receiverSocket |-> receiverSocket,
               newMessage |-> [firstCalls[i].newMessage EXCEPT
                                  !.status = IF receiverSocket # {}
                                             THEN "delivered" ELSE @]])
    /\ UNCHANGED <<firstSockets, firstUsers, firstMessages, firstChats,
                   keyVars, globalVars, dirVars, authVars, messages, pending, now>>

\* sendMessage: the second save() returns, having written the status; the
\* receiver's room is sent newMessage
FirstSendDelivered(i) ==
    /\ i \in DOMAIN firstCalls
    /\ firstCalls[i].kind = "sendMessage"
    /\ firstCalls[i].pc = "delivered"
    /\ firstMessages' = [firstMessages EXCEPT ![firstCalls[i].newMessage._id].status =
                                                 firstCalls[i].newMessage.status]
    /\ emits' \in RoomEmits("newMessage",
                            RoomMembers(firstCalls[i].newMessage.receiverId)
                               \ {firstCalls[i].socket},
                            firstCalls[i].newMessage)
    /\ firstCalls' = Replace(firstCalls, i, [firstCalls[i] EXCEPT !.pc = "chat"])
    /\ UNCHANGED <<firstSockets, firstUsers, firstChats,
                   keyVars, globalVars, dirVars, authVars, messages, pending, now>>

\* Chat.findOne({ participants: { $all: [senderId, receiverId] } }): the
\* chats that match
ChatsOf(senderId, receiverId) ==
    {k \in DOMAIN firstChats : {senderId, receiverId} \subseteq firstChats[k].participants}

\* sendMessage: Chat.findOne returns; the chat found, or else a new chat,
\* is given the message as its last and chat.save() awaited
FirstSendChat(i) ==
    /\ i \in DOMAIN firstCalls
    /\ firstCalls[i].kind = "sendMessage"
    /\ firstCalls[i].pc = "chat"
    /\ LET found == ChatsOf(firstCalls[i].newMessage.senderId,
                            firstCalls[i].newMessage.receiverId)
       IN  IF found # {}
           THEN \E k \in found :
                   firstCalls' = Replace(firstCalls, i,
                      [kind |-> "sendMessage", pc |-> "chatSave",
                       socket |-> firstCalls[i].socket,
                       receiverSocket |-> firstCalls[i].receiverSocket,
                       newMessage |-> firstCalls[i].newMessage, chat |-> k])
           ELSE firstCalls' = Replace(firstCalls, i,
                   [firstCalls[i] EXCEPT !.pc = "chatCreate"])
    /\ emits' = <<>>
    /\ UNCHANGED <<firstSockets, firstUsers, firstMessages, firstChats,
                   keyVars, globalVars, dirVars, authVars, messages, pending, now>>

\* sendMessage: chat.save() of the chat found returns; the handler is done
FirstSendChatSave(i) ==
    /\ i \in DOMAIN firstCalls
    /\ firstCalls[i].kind = "sendMessage"
    /\ firstCalls[i].pc = "chatSave"
    /\ firstChats' = [firstChats EXCEPT ![firstCalls[i].chat].lastMessageId =
                                           firstCalls[i].newMessage._id]
    /\ firstCalls' = Drop(firstCalls, i)
    /\ emits' = <<>>
    /\ UNCHANGED <<firstSockets, firstUsers, firstMessages,
                   keyVars, globalVars, dirVars, authVars, messages, pending, now>>

\* sendMessage: chat.save() of the new chat returns; populate('participants')
\* is awaited
FirstSendChatCreate(i) ==
    /\ i \in DOMAIN firstCalls
    /\ firstCalls[i].kind = "sendMessage"
    /\ firstCalls[i].pc = "chatCreate"
    /\ firstChats' = Append(firstChats,
          [participants |-> {firstCalls[i].newMessage.senderId,
                             firstCalls[i].newMessage.receiverId},
           lastMessageId |-> firstCalls[i].newMessage._id])
    /\ firstCalls' = Replace(firstCalls, i,
          [firstCalls[i] EXCEPT !.pc = "chatParticipants"])
    /\ emits' = <<>>
    /\ UNCHANGED <<firstSockets, firstUsers, firstMessages,
                   keyVars, globalVars, dirVars, authVars, messages, pending, now>>

\* sendMessage: populate('participants') returns
FirstSendChatParticipants(i) ==
    /\ i \in DOMAIN firstCalls
    /\ firstCalls[i].kind = "sendMessage"
    /\ firstCalls[i].pc = "chatParticipants"
    /\ firstCalls' = Replace(firstCalls, i,
          [firstCalls[i] EXCEPT !.pc = "chatLastMessage"])
    /\ emits' = <<>>
    /\ UNCHANGED <<firstSockets, firstUsers, firstMessages, firstChats,
                   keyVars, globalVars, dirVars, authVars, messages, pending, now>>

\* sendMessage: populate('lastMessageId') returns; the new chat is sent to
\* the sender and to the receiver's room, and the handler is done
FirstSendChatLastMessage(i) ==
    /\ i \in DOMAIN firstCalls
    /\ firstCalls[i].kind = "sendMessage"
    /\ firstCalls[i].pc = "chatLastMessage"
    /\ \E toRoom \in RoomEmits("newChat",
                               RoomMembers(firstCalls[i].newMessage.receiverId)
                                  \ {firstCalls[i].socket},
                               firstCalls[i].newMessage._id) :
          emits' = << Emit("newChat", firstCalls[i].socket,
                           firstCalls[i].newMessage._id) >> \o toRoom
    /\ firstCalls' = Drop(firstCalls, i)
    /\ UNCHANGED <<firstSockets, firstUsers, firstMessages, firstChats,
                   keyVars, globalVars, dirVars, authVars, messages, pending, now>>

\* app.delete('/api/message/:messageId') for req.user, up to the await of
\* Message.findById
FirstDeleteMessage(user, messageId) ==
    /\ firstCalls' = Append(firstCalls, [kind |-> "delete", pc |-> "find",
                                         user |-> user, messageId |-> messageId])
    /\ emits' = <<>>
    /\ UNCHANGED <<firstSockets, firstUsers, firstMessages, firstChats,
                   keyVars, globalVars, dirVars, authVars, messages, pending, now>>

\* delete: Message.findById returns, and the sender is not compared with
\* req.user
FirstDeleteFindAnyUser(i) ==
    /\ i \in DOMAIN firstCalls
    /\ firstCalls[i].kind = "delete"
    /\ firstCalls[i].pc = "find"
    /\ IF firstCalls[i].messageId \notin FirstMessageIds
       THEN /\ emits' = << Response(firstCalls[i].user, 404, "Message not found") >>
            /\ firstCalls' = Drop(firstCalls, i)
       ELSE /\ emits' = <<>>
            /\ firstCalls' = Replace(firstCalls, i, [firstCalls[i] EXCEPT !.pc = "save"])
    /\ UNCHANGED <<firstSockets, firstUsers, firstMessages, firstChats,
                   keyVars, globalVars, dirVars, authVars, messages, pending, now>>

\* delete: Message.findById returns.  No message: 404; a message of
\* another sender: 403; otherwise deleted is set on the copy and
\* message.save() awaited.
FirstDeleteFind(i) ==
    /\ i \in DOMAIN firstCalls
    /\ firstCalls[i].kind = "delete"
    /\ firstCalls[i].pc = "find"
    /\ IF firstCalls[i].messageId \notin FirstMessageIds
       THEN /\ emits' = << Response(firstCalls[i].user, 404, "Message not found") >>
            /\ firstCalls' = Drop(firstCalls, i)
       ELSE IF firstMessages[firstCalls[i].messageId].senderId # firstCalls[i].user
       THEN /\ emits' = << Response(firstCalls[i].user, 403,
                                    "You can only delete your own messages") >>
            /\ firstCalls' = Drop(firstCalls, i)
       ELSE /\ emits' = <<>>
            /\ firstCalls' = Replace(firstCalls, i, [firstCalls[i] EXCEPT !.pc = "save"])
    /\ UNCHANGED <<firstSockets, firstUsers, firstMessages, firstChats,
                   keyVars, globalVars, dirVars, authVars, messages, pending, now>>

\* delete: message.save() returns; the receiver's room is told and the
\* request answered
FirstDeleteSave(i) ==
    /\ i \in DOMAIN firstCalls
    /\ firstCalls[i].kind = "delete"
    /\ firstCalls[i].pc = "save"
    /\ firstMessages' = [firstMessages EXCEPT ![firstCalls[i].messageId].deleted = TRUE]
    /\ \E toRoom \in RoomEmits("messageDeleted",
                               RoomMembers(firstMessages[firstCalls[i].messageId].receiverId),
                               firstCalls[i].messageId) :
          emits' = toRoom \o << Response(firstCalls[i].user, 200,
                                         "Message deleted successfully") >>
    /\ firstCalls' = Drop(firstCalls, i)
    /\ UNCHANGED <<firstSockets, firstUsers, firstChats,
                   keyVars, globalVars, dirVars, authVars, messages, pending, now>>

\* Message.find({ $or: [...], deleted: false }).sort({ timestamp: 1 }) for
\* currentUserId and userId: the arrays it may return
FirstHistory(currentUserId, userId) ==
    LET ids == {m \in FirstMessageIds :
                   /\ \/ /\ firstMessages[m].senderId = currentUserId
                         /\ firstMessages[m].receiverId = userId
                      \/ /\ firstMessages[m].senderId = userId
                         /\ firstMessages[m].receiverId = currentUserId
                   /\ ~firstMessages[m].deleted}
    IN  { [k \in DOMAIN p |-> firstMessages[p[k]]] :
            p \in SortedOrders(ids, [m \in ids |-> firstMessages[m].timestamp]) }

\* app.get('/api/messages/:userId') for req.user, up to the await of
\* User.findById(userId)
FirstGetMessages(user, userId) ==
    /\ firstCalls' = Append(firstCalls, [kind |-> "messages", pc |-> "receiver",
                                         user |-> user, userId |-> userId])
    /\ emits' = <<>>
    /\ UNCHANGED <<firstSockets, firstUsers, firstMessages, firstChats,
                   keyVars, globalVars, dirVars, authVars, messages, pending, now>>

\* messages: User.findById returns; a blocked reader gets 403, otherwise
\* Message.find is awaited
FirstGetMessagesReceiver(i) ==
    /\ i \in DOMAIN firstCalls
    /\ firstCalls[i].kind = "messages"
    /\ firstCalls[i].pc = "receiver"
    /\ IF firstCalls[i].user \in firstUsers[firstCalls[i].userId].blockedUsers
       THEN /\ emits' = << Response(firstCalls[i].user, 403,
                                    "You are blocked by this user") >>
            /\ firstCalls' = Drop(firstCalls, i)
       ELSE /\ emits' = <<>>
            /\ firstCalls' = Replace(firstCalls, i, [firstCalls[i] EXCEPT !.pc = "find"])
    /\ UNCHANGED <<firstSockets, firstUsers, firstMessages, firstChats,
                   keyVars, globalVars, dirVars, authVars, messages, pending, now>>

\* messages: Message.find returns and the request is answered
FirstGetMessagesFind(i) ==
    /\ i \in DOMAIN firstCalls
    /\ firstCalls[i].kind = "messages"
    /\ firstCalls[i].pc = "find"
    /\ \E found \in FirstHistory(firstCalls[i].user, firstCalls[i].userId) :
          emits' = << Response(firstCalls[i].user, 200, found) >>
    /\ firstCalls' = Drop(firstCalls, i)
    /\ UNCHANGED <<firstSockets, firstUsers, firstMessages, firstChats,
                   keyVars, globalVars, dirVars, authVars, messages, pending, now>>

\* sendMessage events and requests are accepted while fewer than MaxCalls
\* handlers are suspended; sendMessage events while fewer than MaxSent
\* messages are stored or about to be.  A socket joins a room once.
FirstAccepting == Len(firstCalls) < MaxCalls

FirstSendsAccepted ==
    Len(firstMessages)
      + Cardinality({i \in DOMAIN firstCalls :
                        /\ firstCalls[i].kind = "sendMessage"
                        /\ firstCalls[i].pc \in {"receiver", "save"}})

\* Clients that send while the receiver comes and goes.  Socket 1 is
\* alice's client and sends to bob.  Socket 2 is bob's client and joins
\* bob's room.  No client reports a message status.
DeliverNext ==
    \/ \E s \in FirstSockets : FirstConnect(s)
    \/ \E s \in FirstSockets : FirstDisconnect(s)
    \/ "bob" \notin firstSockets[2].rooms /\ FirstJoin(2, "bob")
    \/ \E i \in DOMAIN firstCalls : FirstJoinOnline(i)
    \/ \E i \in DOMAIN firstCalls : FirstJoinContacts(i)
    \/ FirstAccepting /\ FirstSendsAccepted < MaxSent
          /\ FirstSendMessage(1, "alice", "bob")
    \/ \E i \in DOMAIN firstCalls : FirstSendReceiver(i)
    \/ \E i \in DOMAIN firstCalls : FirstSendSave(i)
    \/ \E i \in DOMAIN firstCalls : FirstSendPopulateSender(i)
    \/ \E i \in DOMAIN firstCalls : FirstSendPopulateReceiver(i)
    \/ \E i \in DOMAIN firstCalls : FirstSendDelivered(i)
    \/ \E i \in DOMAIN firstCalls : FirstSendChat(i)
    \/ \E i \in DOMAIN firstCalls : FirstSendChatSave(i)
    \/ \E i \in DOMAIN firstCalls : FirstSendChatCreate(i)
    \/ \E i \in DOMAIN firstCalls : FirstSendChatParticipants(i)
    \/ \E i \in DOMAIN firstCalls : FirstSendChatLastMessage(i)

SpecDeliver == Init /\ [][DeliverNext]_vars

\* Clients that delete.  Socket 1 is alice's client and sends to bob, who is
\* not connected.  Alice and bob each request the deletion of messages and
\* their history with the other.
DeleteNext ==
    \/ FirstConnect(1)
    \/ FirstAccepting /\ FirstSendsAccepted < MaxSent
          /\ FirstSendMessage(1, "alice", "bob")
    \/ \E i \in 1..MaxCalls : FirstSendReceiver(i)
    \/ \E i \in 1..MaxCalls : FirstSendSave(i)
    \/ \E i \in 1..MaxCalls : FirstSendPopulateSender(i)
    \/ \E i \in 1..MaxCalls : FirstSendPopulateReceiver(i)
    \/ \E i \in 1..MaxCalls : FirstSendChat(i)
    \/ \E i \in 1..MaxCalls : FirstSendChatSave(i)
    \/ \E i \in 1..MaxCalls : FirstSendChatCreate(i)
    \/ \E i \in 1..MaxCalls : FirstSendChatParticipants(i)
    \/ \E i \in 1..MaxCalls : FirstSendChatLastMessage(i)
    \/ \E u \in {"alice", "bob"}, m \in 1..MaxSent :
          FirstAccepting /\ FirstDeleteMessage(u, m)
    \/ \E i \in 1..MaxCalls : FirstDeleteFind(i)
    \/ \E i \in 1..MaxCalls : FirstDeleteSave(i)
    \/ FirstAccepting /\ FirstGetMessages("alice", "bob")
    \/ FirstAccepting /\ FirstGetMessages("bob", "alice")
    \/ \E i \in 1..MaxCalls : FirstGetMessagesReceiver(i)
    \/ \E i \in 1..MaxCalls : FirstGetMessagesFind(i)

SpecDelete == Init /\ [][DeleteNext]_vars

\* C24: when the message a delete request names was sent by another user
\* than req.user, the request is answered 403, the stored messages stay as
\* they are, and no delete of a message by another user than its sender is
\* left waiting for its save.
C24_OnlySenderDeletes ==
    [][\A i \in DOMAIN firstCalls :
          (/\ FirstDeleteFind(i)
           /\ firstCalls[i].messageId \in FirstMessageIds
           /\ firstMessages[firstCalls[i].messageId].senderId # firstCalls[i].user)
          => /\ firstMessages' = firstMessages
             /\ emits' = << Response(firstCalls[i].user, 403,
                                     "You can only delete your own messages") >>
             /\ \A j \in DOMAIN firstCalls' :
                   (firstCalls'[j].kind = "delete" /\ firstCalls'[j].pc = "save")
                   => firstMessages'[firstCalls'[j].messageId].senderId
                        = firstCalls'[j].user]_vars

\* bob's request to delete alice's message has just been refused, and the
\* message is stored and not deleted
C24_Witness ==
    /\ emits = << Response("bob", 403, "You can only delete your own messages") >>
    /\ \E m \in FirstMessageIds :
          firstMessages[m].senderId = "alice" /\ ~firstMessages[m].deleted

\* C25: when the delete of a message by its sender completes, every history
\* the receiver may then read with the sender contains the message and no
\* history the sender may read with the receiver does.
C25_DeleteIsViewerLocal ==
    [][\A i \in DOMAIN firstCalls :
          FirstDeleteSave(i)
          => \A m \in {firstCalls[i].messageId} :
             \A a \in {firstMessages[m].senderId}, b \in {firstMessages[m].receiverId} :
                (/\ \A h \in FirstHistory(b, a) : \E k \in DOMAIN h : h[k]._id = m
                 /\ \A h \in FirstHistory(a, b) : \A k \in DOMAIN h : h[k]._id # m)']_vars

\* C26: when a sendMessage handler completes, the status of the message it
\* stored is delivered if the receiver's room had a member when the handler
\* looked it up, and sent if it had none.
C26_DeliveredIffResolvable ==
    [][\A i \in DOMAIN firstCalls :
          (FirstSendChatSave(i) \/ FirstSendChatLastMessage(i))
          => \A m \in {firstCalls[i].newMessage._id} :
                firstMessages'[m].status
                  = IF firstCalls[i].receiverSocket # {} THEN "delivered" ELSE "sent"]_vars

\* a sendMessage handler has completed: its message is marked delivered and
\* is the last of its chat, and the receiver has disconnected since
C26_Witness ==
    /\ firstCalls = <<>>
    /\ \E m \in FirstMessageIds :
          /\ firstMessages[m].status = "delivered"
          /\ \E k \in DOMAIN firstChats : firstChats[k].lastMessageId = m
          /\ RoomMembers(firstMessages[m].receiverId) = {}


----------------------------------------------------------------------------
(* The first server: messageStatus (src/server.js 628-649).  The status of *)
(* the event is whatever string the client sent: the schema of the first   *)
(* server declares status a String without an enum, and                    *)
(* findByIdAndUpdate writes the update as given.                           *)

\* the status values a client puts in a messageStatus event; seen is a
\* string the server has no meaning for
ReportedStatuses == {"sent", "delivered", "read", "seen"}

\* socket.on('messageStatus'), up to the await of Message.findByIdAndUpdate
FirstMessageStatus(s, messageId, status) ==
    /\ firstSockets[s].state = "open"
    /\ firstCalls' = Append(firstCalls, [kind |-> "messageStatus", pc |-> "update",
                                         socket |-> s, messageId |-> messageId,
                                         status |-> status])
    /\ emits' = <<>>
    /\ UNCHANGED <<firstSockets, firstUsers, firstMessages, firstChats,
                   keyVars, globalVars, dirVars, authVars, messages, pending, now>>

\* messageStatus: findByIdAndUpdate returns the updated message, or null
\* when no message has the id; the sender's room is told of the update
FirstMessageStatusUpdate(i) ==
    /\ i \in DOMAIN firstCalls
    /\ firstCalls[i].kind = "messageStatus"
    /\ firstCalls[i].pc = "update"
    /\ IF firstCalls[i].messageId \in FirstMessageIds
       THEN /\ firstMessages' = [firstMessages EXCEPT ![firstCalls[i].messageId].status =
                                                        firstCalls[i].status]
            /\ emits' \in RoomEmits("messageStatusUpdate",
                                    RoomMembers(firstMessages[firstCalls[i].messageId].senderId)
                                       \ {firstCalls[i].socket},
                                    [messageId |-> firstCalls[i].messageId,
                                     status |-> firstCalls[i].status])
       ELSE /\ UNCHANGED firstMessages
            /\ emits' = <<>>
    /\ firstCalls' = Drop(firstCalls, i)
    /\ UNCHANGED <<firstSockets, firstUsers, firstChats,
                   keyVars, globalVars, dirVars, authVars, messages, pending, now>>

\* Clients that report statuses.  Socket 1 is alice's client: it joins
\* alice's room and sends to bob.  Socket 2 is bob's client: it joins bob's
\* room and reports a status for any message.
ReportNext ==
    \/ \E s \in FirstSockets : FirstConnect(s)
    \/ "alice" \notin firstSockets[1].rooms /\ FirstJoin(1, "alice")
    \/ "bob" \notin firstSockets[2].rooms /\ FirstJoin(2, "bob")
    \/ \E i \in DOMAIN firstCalls : FirstJoinOnline(i)
    \/ \E i \in DOMAIN firstCalls : FirstJoinContacts(i)
    \/ FirstAccepting /\ FirstSendsAccepted < MaxSent
          /\ FirstSendMessage(1, "alice", "bob")
    \/ \E i \in DOMAIN firstCalls : FirstSendReceiver(i)
    \/ \E i \in DOMAIN firstCalls : FirstSendSave(i)
    \/ \E i \in DOMAIN firstCalls : FirstSendPopulateSender(i)
    \/ \E i \in DOMAIN firstCalls : FirstSendPopulateReceiver(i)
    \/ \E i \in DOMAIN firstCalls : FirstSendDelivered(i)
    \/ \E i \in DOMAIN firstCalls : FirstSendChat(i)
    \/ \E i \in DOMAIN firstCalls : FirstSendChatSave(i)
    \/ \E i \in DOMAIN firstCalls : FirstSendChatCreate(i)
    \/ \E i \in DOMAIN firstCalls : FirstSendChatParticipants(i)
    \/ \E i \in DOMAIN firstCalls : FirstSendChatLastMessage(i)
    \/ \E m \in 1..MaxSent, status \in ReportedStatuses :
          FirstAccepting /\ FirstMessageStatus(2, m, status)
    \/ \E i \in DOMAIN firstCalls : FirstMessageStatusUpdate(i)

SpecReport == Init /\ [][ReportNext]_vars

\* C32: the status of every stored message is sent, delivered or read.
C32_StatusDomain ==
    \A m \in FirstMessageIds :
        firstMessages[m].status \in {"sent", "delivered", "read"}

----------------------------------------------------------------------------
(* The global chat (src/unnamed/part_000 76-106): one in-memory messages   *)
(* array that every socket appends to, cut to its last LogLimit entries.   *)
(* A message is [text, sender, timestamp].                                 *)

\* the array is left to grow
KeepAll(log) == log

\* if (messages.length > 100) messages.shift()
KeepLast(log) == IF Len(log) > LogLimit THEN Tail(log) ELSE log

\* io.on('connection')
GlobalConnect(c) ==
    /\ globalConn[c] = "idle"
    /\ globalConn' = [globalConn EXCEPT ![c] = "open"]
    /\ emits' = <<>>
    /\ UNCHANGED <<globalActiveUsers, globalMessages, globalSent,
                   keyVars, dirVars, authVars, firstVars, messages, pending, now>>

\* socket.on('user-login')
GlobalUserLogin(c, username) ==
    /\ globalConn[c] = "open"
    /\ globalActiveUsers' = MapSet(globalActiveUsers, c, username)
    /\ emits' = << Emit("user-joined", "others", username),
                   Emit("message-history", c, globalMessages) >>
    /\ UNCHANGED <<globalConn, globalMessages, globalSent,
                   keyVars, dirVars, authVars, firstVars, messages, pending, now>>

\* socket.on('send-message'); new Date() reads t
GlobalSendMessage(c, sender, text, t) ==
    /\ globalConn[c] = "open"
    /\ t >= now
    /\ now' = t
    /\ LET message == [text |-> text, sender |-> sender, timestamp |-> t]
       IN  /\ globalMessages' = KeepLast(Append(globalMessages, message))
           /\ emits' = << Emit("new-message", "all", message) >>
    /\ globalSent' = globalSent + 1
    /\ UNCHANGED <<globalConn, globalActiveUsers,
                   keyVars, dirVars, authVars, firstVars, messages, pending>>

\* socket.on('disconnect')
GlobalDisconnect(c) ==
    /\ globalConn[c] = "open"
    /\ globalConn' = [globalConn EXCEPT ![c] = "closed"]
    /\ IF MapHas(globalActiveUsers, c)
       THEN /\ globalActiveUsers' = MapDelete(globalActiveUsers, c)
            /\ emits' = << Emit("user-left", "others", globalActiveUsers[c]) >>
       ELSE /\ UNCHANGED globalActiveUsers
            /\ emits' = <<>>
    /\ UNCHANGED <<globalMessages, globalSent,
                   keyVars, dirVars, authVars, firstVars, messages, pending, now>>

\* Two clients of the global chat.  Either logs in as alice or bob and
\* sends; each message is sent a millisecond after the one before and
\* carries its number as text.
GlobalNext ==
    \/ \E c \in GlobalSockets : GlobalConnect(c)
    \/ \E c \in GlobalSockets, u \in {"alice", "bob"} : GlobalUserLogin(c, u)
    \/ \E c \in GlobalSockets :
          globalSent < MaxGlobalSends
          /\ GlobalSendMessage(c, "alice", globalSent + 1, now + 1)
    \/ \E c \in GlobalSockets : GlobalDisconnect(c)

SpecGlobal == Init /\ [][GlobalNext]_vars

\* the smaller of two numbers
Min(a, b) == IF a < b THEN a ELSE b

\* C33: after n send-message events the messages array holds the last
\* min(n, 100) of the n messages sent, in the order they were sent, and so
\* never more than 100.
C33_BoundedLog ==
    /\ Len(globalMessages) <= LogLimit
    /\ Len(globalMessages) = Min(globalSent, LogLimit)
    /\ \A k \in DOMAIN globalMessages :
          globalMessages[k].text = globalSent - Len(globalMessages) + k

\* more messages have been sent than the array keeps, and the array is full
C33_Witness ==
    /\ globalSent > LogLimit
    /\ Len(globalMessages) = LogLimit

----------------------------------------------------------------------------
(* Presence *)

\* userSockets.get(u) is c
Resolves(us, u, c) == MapHas(us, u) /\ us[u] = c

\* C6: when user-login for u on socket c2 follows a user-login for u on
\* another socket c1, u resolves to c2, and u never again resolves to a
\* socket that a later login of u elsewhere has replaced.
C6_LastBindWins ==
    [][/\ \A c \in DOMAIN conn, u \in Users :
             UserLogin(c, u) => Resolves(userSockets', u, c)
       /\ \A p \in stale' : ~Resolves(userSockets', p[1], p[2])]_vars

\* C7: when a socket disconnects whose user has since logged in on another
\* socket, the user stays resolvable to that other socket and no
\* user-offline is broadcast for the user.
C7_StaleUnbindGuarded ==
    [][\A c \in DOMAIN conn :
          (/\ Disconnect(c)
           /\ MapHas(activeUsers, c)
           /\ MapHas(userSockets, activeUsers[c].username)
           /\ userSockets[activeUsers[c].username] # c)
          => \A u \in {activeUsers[c].username}, c2 \in {userSockets[activeUsers[c].username]} :
                /\ Resolves(userSockets', u, c2)
                /\ \A k \in DOMAIN emits' :
                      ~(emits'[k].ev = "user-offline" /\ emits'[k].data = u)]_vars

\* C8: no presence map refers to a socket that has disconnected.
C8_NoDanglingSocket ==
    \A c \in DOMAIN conn :
        conn[c] = "closed"
            => /\ ~MapHas(activeUsers, c)
               /\ \A u \in DOMAIN userSockets : userSockets[u] # c

\* C9: a socket that is recorded for a user is never recorded for another
\* user afterwards.
C9_OneUserPerSocket ==
    [][\A c \in DOMAIN conn :
          (MapHas(activeUsers, c) /\ MapHas(activeUsers', c))
              => activeUsers'[c].username = activeUsers[c].username]_vars

----------------------------------------------------------------------------
(* Stored messages and unread counts *)

C10_UnreadZeroAfterJoin ==
    [][\A i \in DOMAIN pending :
          (/\ JoinUpdate(i)
           /\ \E m \in MessageIds : /\ messages[m].sender = pending[i].targetUser
                                    /\ messages[m].receiver = pending[i].currentUser)
          =>
              \A reader \in {pending[i].currentUser}, partner \in {pending[i].targetUser} :
                  (\A result \in getUserConversations(reader) :
                      \A k \in DOMAIN result :
                          result[k].partner = partner => result[k].unreadCount = 0)']_vars

\* The stored messages sender has addressed to receiver.
SentTo(sender, receiver) ==
    {m \in MessageIds : messages[m].sender = sender /\ messages[m].receiver = receiver}

\* C11: when the summaries of a login are emitted to user b, and every one
\* of the n >= 1 stored messages from a to b is still unread, the summaries
\* list partner a, and list a with unreadCount = n.
C11_OfflineMessagesSurface ==
    [][\A i \in DOMAIN pending :
          LoginConversations(i)
          => \A b \in {pending[i].username}, a \in Users \ {pending[i].username} :
             \A n \in {Cardinality(SentTo(a, b))} :
                (n >= 1 /\ \A m \in SentTo(a, b) : ~messages[m].read)
                => \A k \in DOMAIN emits' :
                      emits'[k].ev = "user-conversations"
                      => /\ \E e \in DOMAIN emits'[k].data :
                               emits'[k].data[e].partner = a
                         /\ \A e \in DOMAIN emits'[k].data :
                               emits'[k].data[e].partner = a
                               => emits'[k].data[e].unreadCount = n]_vars


\* C12: when join-conversation marks a message read whose sender resolves
\* to a live socket other than the reader's, that socket is sent an event
\* in the same step.
C12_ReadReceiptReachesSender ==
    [][\A i \in DOMAIN pending :
          JoinUpdate(i)
          => \A m \in MessageIds :
                (/\ messages[m].conversationId = pending[i].conversationId
                 /\ messages[m].receiver = pending[i].currentUser
                 /\ ~messages[m].read
                 /\ MapHas(userSockets, messages[m].sender)
                 /\ userSockets[messages[m].sender] # pending[i].socket)
                => \A to \in {userSockets[messages[m].sender]} :
                      \E k \in DOMAIN emits' : emits'[k].to = to]_vars


\* C14: a step in which insertOne() of a send-private-message throws emits
\* no new-private-message to any socket, and every new-private-message that
\* any step emits carries a message that is in the store.
C14_EchoOnlyAfterAppend ==
    [][/\ \A i \in DOMAIN pending :
             SendInsertFails(i)
             => \A k \in DOMAIN emits' : emits'[k].ev # "new-private-message"
       /\ \A k \in DOMAIN emits' :
             emits'[k].ev = "new-private-message"
             => /\ emits'[k].data._id \in DOMAIN messages'
                /\ messages'[emits'[k].data._id].timestamp = emits'[k].data.timestamp
                /\ messages'[emits'[k].data._id].sender = emits'[k].data.sender]_vars

\* An insertOne() has just thrown: the step logged the failure, and fewer
\* messages are stored than sends were accepted.
C14_Witness ==
    /\ emits = << LogError("Error sending message:") >>
    /\ Len(messages) < now

\* C19: when insertOne() of a send-private-message, or find() or
\* updateMany() of a join-conversation throws, the socket the event came
\* from is sent an error event.
C19_FailureReported ==
    [][\A i \in DOMAIN pending :
          (SendInsertFails(i) \/ JoinFindFails(i) \/ JoinUpdateFails(i))
          => \A c \in {pending[i].socket} :
                \E k \in DOMAIN emits' : emits'[k].ev = "error" /\ emits'[k].to = c]_vars


\* C16: of two stored messages of one conversation that one socket sent,
\* the one sent first (the one with the earlier clock reading) is the one
\* stored first.
C16_SendOrderPreserved ==
    \A i, j \in MessageIds :
        (i < j /\ messages[i].conversationId = messages[j].conversationId)
            => messages[i].timestamp < messages[j].timestamp

\* The send that read clock t is suspended at insertOne() and its socket
\* has disconnected.
SendOutstandingAfterDisconnect(t) ==
    \E i \in DOMAIN pending :
        /\ pending[i].kind = "send"
        /\ pending[i].pc = "insert"
        /\ pending[i].message.timestamp = t
        /\ conn[pending[i].socket] = "closed"

\* The message that read clock t is in every history of its conversation.
InHistory(t) ==
    \E m \in MessageIds :
        /\ messages[m].timestamp = t
        /\ \A history \in ConversationMessages(messages[m].conversationId) :
              \E k \in DOMAIN history : history[k]._id = m

\* C17: a send-private-message that is suspended at insertOne() when its
\* socket disconnects is eventually stored and then part of the history of
\* its conversation.
C17_DisconnectKeepsSend ==
    \A t \in 1..MaxMsgs : SendOutstandingAfterDisconnect(t) ~> InHistory(t)

\* insertOne() has just returned for a send whose socket had disconnected
\* while the send was suspended: the message is stored.
C17_Witness ==
    \E i \in DOMAIN pending :
        /\ pending[i].kind = "send"
        /\ pending[i].pc = "senderConversations"
        /\ conn[pending[i].socket] = "closed"
        /\ emits = << Emit("new-private-message", pending[i].socket, pending[i].message) >>
        /\ InHistory(pending[i].message.timestamp)


\* The socket is connected and has not logged in.
Unauthenticated(c) == conn[c] = "open" /\ ~MapHas(activeUsers, c)

\* C20: a send-private-message that arrived on a socket that has not logged
\* in stores no message and emits nothing but an error to that socket.
C20_OutOfStateRejected ==
    [][\A i \in DOMAIN pending :
          (SendInsert(i) /\ Unauthenticated(pending[i].socket))
          => /\ messages' = messages
             /\ \A k \in DOMAIN emits' : emits'[k].ev = "error"]_vars


\* C21: no stored message has the same user as sender and receiver.
C21_NoSelfConversation ==
    \A m \in MessageIds : messages[m].sender # messages[m].receiver

\* history is ascending by timestamp, messages of equal timestamp by _id
OrderedByTimeThenId(history) ==
    \A k, l \in DOMAIN history :
        k < l => \/ history[k].timestamp < history[l].timestamp
                 \/ /\ history[k].timestamp = history[l].timestamp
                    /\ history[k]._id < history[l]._id

\* C22: in every state, every read of a conversation's history returns the
\* same array, ascending by timestamp and, within a timestamp, by _id.
C22_HistoryDeterministic ==
    \A m \in MessageIds :
        \A h1, h2 \in ConversationMessages(messages[m].conversationId) :
            h1 = h2 /\ OrderedByTimeThenId(h1)

\* C23: every array getUserConversations(u) may return has one summary per
\* conversation in which u sent or received a message, most recent last
\* message first.
C23_SummariesComplete ==
    \A u \in Users :
        \A result \in getUserConversations(u) :
            /\ Len(result) = Cardinality(ConversationsOf(u))
            /\ \A k, l \in DOMAIN result :
                  k < l => result[k].lastMessage.timestamp
                             >= result[l].lastMessage.timestamp


\* C27: the updateMany() of a join-conversation by currentUser on a
\* conversation sets read on the messages of that conversation whose
\* receiver is currentUser and leaves every other message as it was.
C27_MarkReadFrame ==
    [][\A i \in DOMAIN pending :
          JoinUpdate(i) =>
              /\ DOMAIN messages' = DOMAIN messages
              /\ \A m \in MessageIds :
                    IF /\ messages[m].conversationId = pending[i].conversationId
                       /\ messages[m].receiver = pending[i].currentUser
                    THEN messages'[m] = [messages[m] EXCEPT !.read = TRUE]
                    ELSE messages'[m] = messages[m]]_vars

\* a join has just marked a message read and left unread a message of the
\* same conversation that the joining user sent
C27_Witness ==
    /\ Len(emits) = 1
    /\ emits[1].ev = "conversation-history"
    /\ \E m, n \in MessageIds :
          /\ messages[m].conversationId = emits[1].data.conversationId
          /\ messages[n].conversationId = emits[1].data.conversationId
          /\ messages[m].read
          /\ ~messages[n].read
          /\ messages[n].receiver # messages[m].receiver

\* C29: a user-login of a user who is already bound in userSockets emits no
\* user-online.
C29_OnlineOnlyOnTransition ==
    [][\A c \in Conns : \A username \in DirUsers :
          (UserLogin(c, username) /\ MapHas(userSockets, username)) =>
              \A k \in DOMAIN emits' : emits'[k].ev # "user-online"]_vars

\* C30: the disconnect of a socket that has no entry in activeUsers changes
\* neither activeUsers nor userSockets and emits no user-offline.
C30_DisconnectBeforeLoginNoOp ==
    [][\A c \in Conns :
          (Disconnect(c) /\ ~MapHas(activeUsers, c)) =>
              /\ UNCHANGED <<activeUsers, userSockets>>
              /\ \A k \in DOMAIN emits' : emits'[k].ev # "user-offline"]_vars

\* the only socket that ever connected has disconnected without a login
C30_Witness ==
    /\ \E c \in Conns : /\ conn[c] = "closed"
                        /\ \A d \in Conns \ {c} : conn[d] = "idle"
    /\ pending = <<>>
    /\ emits = <<>>
    /\ activeUsers = EmptyMap
    /\ userSockets = EmptyMap

\* C34: userSockets maps a user to a socket exactly when activeUsers maps
\* that socket to a record of that user, so the names in activeUsers are the
\* users userSockets resolves.
C34_PresenceMapsInSync ==
    /\ \A u \in DirUsers, c \in Conns :
          Resolves(userSockets, u, c)
            <=> (MapHas(activeUsers, c) /\ activeUsers[c].username = u)
    /\ {OnlineUsers(activeUsers)[k] : k \in DOMAIN OnlineUsers(activeUsers)}
         = DOMAIN userSockets

----------------------------------------------------------------------------
(* Conversation keying as a pure function: the inputs are drawn in Init,   *)
(* KeyCall applies getConversationId to them.                              *)

KeyInit ==
    /\ keyArgs \in KeyNames \X KeyNames \X KeyNames \X KeyNames
    /\ keyRes = <<>>
    /\ ServerStart

KeyCall ==
    /\ keyRes = <<>>
    /\ keyRes' = [ab |-> getConversationId(keyArgs[1], keyArgs[2]),
                  ba |-> getConversationId(keyArgs[2], keyArgs[1]),
                  cd |-> getConversationId(keyArgs[3], keyArgs[4])]
    /\ UNCHANGED <<keyArgs, dirVars, chatVars, authVars, firstVars, globalVars>>

KeyNext == KeyCall

SpecKey == KeyInit /\ [][KeyNext]_vars

\* C1: getConversationId(a, b) equals getConversationId(b, a) for all user
\* identifiers a and b.
C1_Commutative == keyRes # <<>> => keyRes.ab = keyRes.ba

\* The calls were made on two different identifiers in both argument orders.
C1_Witness == keyRes # <<>> /\ StrLess(keyArgs[2], keyArgs[1])

\* C2: two calls return the same conversation id only if their unordered
\* argument pairs are equal.
C2_NoCollision ==
    (keyRes # <<>> /\ keyRes.ab = keyRes.cd)
        => {keyArgs[1], keyArgs[2]} = {keyArgs[3], keyArgs[4]}

====
